---- MODULE Spec2Model ----
(***************************************************************************)
(* A model of songvi/robo: the dispatcher's worker-membership plane        *)
(* (registration, heartbeat, deregistration, liveness sweep, DispatchJob), *)
(* the worker agent's job consumer and the JobService cycle orchestrator   *)
(* over the Store.                                                         *)
(*                                                                         *)
(* Spec     : the dispatcher (membership consumers, sweeper, clock) and a  *)
(*            caller of DispatchJob.                                       *)
(* SpecJob  : JobService (StartCycle, ProcessJobs, result handlers), the   *)
(*            worker's handleJobs and the Store.                           *)
(***************************************************************************)
EXTENDS Integers, Sequences, FiniteSets, TLC

VARIABLES
    \* ---- dispatcherImpl (src/unnamed/part_002:36-43)
    workers,        \* d.workers: map worker id -> models.Worker
    lastHeartbeat,  \* d.lastHeartbeat: map worker id -> time
    \* ---- subscription channels of startWorkerManagement (part_002:120-146)
    regCh,          \* dispatcher.worker.register
    hbCh,           \* dispatcher.worker.heartbeat
    derCh,          \* dispatcher.worker.deregister
    \* ---- positions of the dispatcher's goroutines
    regPc,          \* handleRegistrations: "idle", or "hb" between its two locked sections
    regMsg,         \* the registration message being handled
    derPc,          \* handleDeregistrations: "idle", or "hb" between its two locked sections
    derMsg,         \* the deregistration message being handled
    sweepPc,        \* cleanupInactiveWorkers: "idle", or "run" while it holds heartbeatMu
    sweepTodo,      \* keys of lastHeartbeat the running sweep has not visited yet
    nextSweep,      \* time of the sweeper's next tick
    now,            \* the wall clock, in seconds
    \* ---- one DispatchJob call in progress
    disp,
    \* ---- history of the membership traffic (not program state)
    nSent,          \* membership messages published so far
    lastSent,       \* per worker id: status of the last register/deregister published
    lastSeen,       \* per worker id: time its last register/heartbeat was processed (0: never)
    \* ---- the Store (src/unnamed/part_000)
    jobs,           \* Job rows by uuid
    cycles,         \* Cycle rows by uuid
    \* ---- the bus
    jobCh,          \* per subscribed worker: its channel on dispatcher.job.<worker_id>
    subs,           \* the subscriptions to dispatcher.job.result, each with its handler
    \* ---- JobService and the generator
    sc,             \* the StartCycle call in progress
    pj,             \* the ProcessJobs loop
    genClosed,      \* the generator's user channel has been closed
    nUUID,          \* job uuids drawn so far
    \* ---- history of the job plane (not program state)
    origin,         \* per job uuid: the job as StartCycle created it
    published,      \* per job uuid: publishes by the dispatch loop, and a lost write after one
    nCycles,        \* StartCycle calls made
    nStoreFail,     \* Store calls that returned an error
    nTicks,         \* ticks of the ProcessJobs ticker
    \* ---- a worker agent's life
    agent,          \* its implementation, position, scope, and what it has done
    \* ---- the generator
    generator,      \* its strategies, the users in its database, its streams
    \* ---- one call of generateSessionJobs
    synth,          \* the cycle and session given, the jobs returned
    \* ---- the dispatcher's two mutexes
    mu,             \* who holds and who waits for heartbeatMu and workerMu
    \* ---- the components' scopes and their background tasks
    bg              \* cancelled scopes, returned stop hooks, positions of the tasks

memberVars == <<workers, lastHeartbeat, regCh, hbCh, derCh, regPc, regMsg,
                derPc, derMsg, sweepPc, sweepTodo, nextSweep, now,
                nSent, lastSent, lastSeen>>

regVars == <<workers, lastHeartbeat, regCh, hbCh, derCh, regPc, regMsg,
             derPc, derMsg, sweepPc, sweepTodo, nextSweep, nSent, lastSent, lastSeen>>

jobVars == <<jobs, cycles, jobCh, subs, sc, pj, genClosed, nUUID, origin, published, nCycles,
             nStoreFail, nTicks>>

vars == <<workers, lastHeartbeat, regCh, hbCh, derCh, regPc, regMsg,
          derPc, derMsg, sweepPc, sweepTodo, nextSweep, now, disp,
          nSent, lastSent, lastSeen, jobVars, agent, generator, synth, mu, bg>>

unitVars == <<generator, synth, mu, bg>>

----------------------------------------------------------------------------
(* Bounds of the model *)

MaxTicks == 6       \* clock steps taken
MaxSent == 3        \* membership messages published in a run
MaxJobs == 2        \* jobs a cycle's strategy asks for
MaxCycles == 1      \* StartCycle calls
MaxStoreFail == 1   \* Store calls that return an error
MaxPJTicks == 2     \* ticks of the ProcessJobs ticker
MaxBeats == 2       \* heartbeats one worker agent publishes
MaxGenFiles == 6    \* max_files of the strategy given to generateSessionJobs
MaxGenWorkspaces == 5  \* max_workspaces of that strategy
MaxArrayLen == 2    \* length of a strategy's value and probability arrays
MaxProbability == 2 \* largest probability of an array, in units of 1/Scale
MaxDBUsers == 3     \* users in the generator's database
MaxEntries == 2     \* entries of d.lastHeartbeat a sweep ranges over
MaxBuffered == 1    \* messages waiting in a subscription's channel
MaxQueued == 2      \* messages waiting in a worker's job channel
FileBuffer == 1     \* capacity of the generator's file channel

(* Program constants *)

SweepInterval == 10     \* time.NewTicker(10 * time.Second)
EvictAfter == 15        \* now.Sub(lastHB) > 15*time.Second
HeartbeatInterval == 5  \* the worker's heartbeat ticker; the clock's granularity
ChanBuffer == 64        \* make(chan *nats.Msg, 64)
DispatchInterval == 10  \* ProcessJobs: time.NewTicker(10 * time.Second)

WorkerIDs == {"w1", "w2"}

StartTime == HeartbeatInterval
MaxTime == StartTime + MaxTicks * HeartbeatInterval

----------------------------------------------------------------------------
(* A worker agent: the implementation it is built from, where its Start and *)
(* Stop are, its bus connection, its context, its job subscription, its     *)
(* heartbeat goroutine, and the events of its life in order.                *)

NoAgent == [impl |-> "", pc |-> "new", connected |-> TRUE, cancelled |-> FALSE,
            subscribed |-> FALSE, hb |-> "none", err |-> "", events |-> <<>>]

(* The parts of the program modelled on their own, before they are started. *)

NoGen == [pc |-> "new"]

NoSynth == [pc |-> "new"]

NoMu == [pc |-> "new"]

NoBg == [pc |-> "new"]

InitUnits ==
    /\ generator = NoGen
    /\ synth = NoSynth
    /\ mu = NoMu
    /\ bg = NoBg

----------------------------------------------------------------------------
(* Maps with a varying key set (Go maps) *)

EmptyMap == [k \in {} |-> 0]

MapSet(m, k, v) == [x \in (DOMAIN m) \cup {k} |-> IF x = k THEN v ELSE m[x]]

MapDelete(m, k) == [x \in (DOMAIN m) \ {k} |-> m[x]]

----------------------------------------------------------------------------
(* Messages of the membership protocol *)

(* A message is the bytes on the bus: json tells whether json.Unmarshal *)
(* decodes them; the other fields are what it decodes them to.          *)
NoMsg == [json |-> TRUE, worker_id |-> "", name |-> "", status |-> ""]

RegistrationMessage(w) == [json |-> TRUE, worker_id |-> w, name |-> "W", status |-> "registered"]

HeartbeatMessage(w) == [json |-> TRUE, worker_id |-> w, name |-> "", status |-> "heartbeat"]

DeregistrationMessage(w) == [json |-> TRUE, worker_id |-> w, name |-> "", status |-> "deregistered"]

(* The worker publishes on the dispatcher's subjects; the bus appends to the *)
(* dispatcher's subscription channel, one bounded channel per subject.       *)

Register(w) ==
    /\ nSent < MaxSent
    /\ Len(regCh) < ChanBuffer
    /\ regCh' = Append(regCh, RegistrationMessage(w))
    /\ nSent' = nSent + 1
    /\ lastSent' = [lastSent EXCEPT ![w] = "registered"]
    /\ UNCHANGED <<workers, lastHeartbeat, hbCh, derCh, regPc, regMsg, derPc, derMsg,
                   sweepPc, sweepTodo, nextSweep, now, disp, lastSeen>>
    /\ UNCHANGED jobVars
    /\ UNCHANGED <<agent, unitVars>>

Heartbeat(w) ==
    /\ nSent < MaxSent
    /\ Len(hbCh) < ChanBuffer
    /\ hbCh' = Append(hbCh, HeartbeatMessage(w))
    /\ nSent' = nSent + 1
    /\ UNCHANGED <<workers, lastHeartbeat, regCh, derCh, regPc, regMsg, derPc, derMsg,
                   sweepPc, sweepTodo, nextSweep, now, disp, lastSent, lastSeen>>
    /\ UNCHANGED jobVars
    /\ UNCHANGED <<agent, unitVars>>

Deregister(w) ==
    /\ nSent < MaxSent
    /\ Len(derCh) < ChanBuffer
    /\ derCh' = Append(derCh, DeregistrationMessage(w))
    /\ nSent' = nSent + 1
    /\ lastSent' = [lastSent EXCEPT ![w] = "deregistered"]
    /\ UNCHANGED <<workers, lastHeartbeat, regCh, hbCh, regPc, regMsg, derPc, derMsg,
                   sweepPc, sweepTodo, nextSweep, now, disp, lastSeen>>
    /\ UNCHANGED jobVars
    /\ UNCHANGED <<agent, unitVars>>

(* Any client of the bus can publish on a membership subject: bytes that *)
(* are no JSON, or a message with another subject's status.              *)
Malformed == [json |-> FALSE, worker_id |-> "", name |-> "", status |-> ""]

Statuses == {"registered", "heartbeat", "deregistered"}

Unexpected(expected) ==
    {Malformed} \cup
    {[json |-> TRUE, worker_id |-> w, name |-> "W", status |-> st] :
        w \in WorkerIDs, st \in Statuses \ {expected}}

publishUnexpected(subject) ==
    /\ nSent < MaxSent
    /\ \E m \in Unexpected(subject) :
         /\ regCh' = IF subject = "registered" THEN Append(regCh, m) ELSE regCh
         /\ hbCh' = IF subject = "heartbeat" THEN Append(hbCh, m) ELSE hbCh
         /\ derCh' = IF subject = "deregistered" THEN Append(derCh, m) ELSE derCh
    /\ nSent' = nSent + 1
    /\ UNCHANGED <<workers, lastHeartbeat, regPc, regMsg, derPc, derMsg, sweepPc,
                   sweepTodo, nextSweep, now, disp, lastSent, lastSeen>>
    /\ UNCHANGED jobVars
    /\ UNCHANGED <<agent, unitVars>>

----------------------------------------------------------------------------
(* The dispatcher's membership consumers *)

Worker(msg) == [UUID |-> msg.worker_id, Name |-> msg.name]

(* handleRegistrations, first locked section: receive, check the status, *)
(* and under workerMu insert d.workers[WorkerID].                         *)
handleRegistrationsWorkers ==
    /\ regPc = "idle"
    /\ regCh # <<>>
    /\ LET msg == Head(regCh) IN
         /\ regCh' = Tail(regCh)
         /\ IF ~msg.json \/ msg.status # "registered"
              THEN UNCHANGED <<workers, regPc, regMsg>>
              ELSE /\ workers' = MapSet(workers, msg.worker_id, Worker(msg))
                   /\ regPc' = "hb"
                   /\ regMsg' = msg
    /\ UNCHANGED <<lastHeartbeat, hbCh, derCh, derPc, derMsg, sweepPc, sweepTodo,
                   nextSweep, now, disp, nSent, lastSent, lastSeen>>
    /\ UNCHANGED jobVars
    /\ UNCHANGED <<agent, unitVars>>

(* handleRegistrations, second locked section: under heartbeatMu set *)
(* d.lastHeartbeat[WorkerID] = time.Now().                            *)
handleRegistrationsHeartbeat ==
    /\ regPc = "hb"
    /\ sweepPc = "idle"
    /\ lastHeartbeat' = MapSet(lastHeartbeat, regMsg.worker_id, now)
    /\ lastSeen' = [lastSeen EXCEPT ![regMsg.worker_id] = now]
    /\ regPc' = "idle"
    /\ regMsg' = NoMsg
    /\ UNCHANGED <<workers, regCh, hbCh, derCh, derPc, derMsg, sweepPc, sweepTodo,
                   nextSweep, now, disp, nSent, lastSent>>
    /\ UNCHANGED jobVars
    /\ UNCHANGED <<agent, unitVars>>

(* A heartbeat handler that promotes the sender into d.workers. *)
handleHeartbeatsPromoting ==
    /\ hbCh # <<>>
    /\ sweepPc = "idle"
    /\ LET msg == Head(hbCh) IN
         /\ hbCh' = Tail(hbCh)
         /\ workers' = MapSet(workers, msg.worker_id, Worker(msg))
         /\ lastHeartbeat' = MapSet(lastHeartbeat, msg.worker_id, now)
         /\ lastSeen' = [lastSeen EXCEPT ![msg.worker_id] = now]
    /\ UNCHANGED <<regCh, derCh, regPc, regMsg, derPc, derMsg, sweepPc,
                   sweepTodo, nextSweep, now, disp, nSent, lastSent>>
    /\ UNCHANGED jobVars
    /\ UNCHANGED <<agent, unitVars>>

(* A heartbeat handler that checks neither the decoding nor the status. *)
handleHeartbeatsUnchecked ==
    /\ hbCh # <<>>
    /\ sweepPc = "idle"
    /\ LET msg == Head(hbCh) IN
         /\ hbCh' = Tail(hbCh)
         /\ lastHeartbeat' = MapSet(lastHeartbeat, msg.worker_id, now)
         /\ lastSeen' = [k \in WorkerIDs |->
                           IF k = msg.worker_id THEN now ELSE lastSeen[k]]
    /\ UNCHANGED <<workers, regCh, derCh, regPc, regMsg, derPc, derMsg, sweepPc,
                   sweepTodo, nextSweep, now, disp, nSent, lastSent>>
    /\ UNCHANGED jobVars
    /\ UNCHANGED <<agent, unitVars>>

(* handleHeartbeats: receive, check the status, and under heartbeatMu set *)
(* d.lastHeartbeat[WorkerID] = time.Now(); d.workers is not consulted.     *)
handleHeartbeats ==
    /\ hbCh # <<>>
    /\ sweepPc = "idle"
    /\ LET msg == Head(hbCh) IN
         /\ hbCh' = Tail(hbCh)
         /\ IF ~msg.json \/ msg.status # "heartbeat"
              THEN UNCHANGED <<lastHeartbeat, lastSeen>>
              ELSE /\ lastHeartbeat' = MapSet(lastHeartbeat, msg.worker_id, now)
                   /\ lastSeen' = [lastSeen EXCEPT ![msg.worker_id] = now]
    /\ UNCHANGED <<workers, regCh, derCh, regPc, regMsg, derPc, derMsg, sweepPc,
                   sweepTodo, nextSweep, now, disp, nSent, lastSent>>
    /\ UNCHANGED jobVars
    /\ UNCHANGED <<agent, unitVars>>

(* handleDeregistrations, first locked section: delete(d.workers, id). *)
handleDeregistrationsWorkers ==
    /\ derPc = "idle"
    /\ derCh # <<>>
    /\ LET msg == Head(derCh) IN
         /\ derCh' = Tail(derCh)
         /\ IF ~msg.json \/ msg.status # "deregistered"
              THEN UNCHANGED <<workers, derPc, derMsg>>
              ELSE /\ workers' = MapDelete(workers, msg.worker_id)
                   /\ derPc' = "hb"
                   /\ derMsg' = msg
    /\ UNCHANGED <<lastHeartbeat, regCh, hbCh, regPc, regMsg, sweepPc, sweepTodo,
                   nextSweep, now, disp, nSent, lastSent, lastSeen>>
    /\ UNCHANGED jobVars
    /\ UNCHANGED <<agent, unitVars>>

(* handleDeregistrations, second locked section: delete(d.lastHeartbeat, id). *)
handleDeregistrationsHeartbeat ==
    /\ derPc = "hb"
    /\ sweepPc = "idle"
    /\ lastHeartbeat' = MapDelete(lastHeartbeat, derMsg.worker_id)
    /\ derPc' = "idle"
    /\ derMsg' = NoMsg
    /\ UNCHANGED <<workers, regCh, hbCh, derCh, regPc, regMsg, sweepPc, sweepTodo,
                   nextSweep, now, disp, nSent, lastSent, lastSeen>>
    /\ UNCHANGED jobVars
    /\ UNCHANGED <<agent, unitVars>>

----------------------------------------------------------------------------
(* The liveness sweeper, cleanupInactiveWorkers *)

(* A sweeper that evicts at 15 s sharp. *)
StaleInclusive(lastHB) == now - lastHB >= EvictAfter

Stale(lastHB) == now - lastHB > EvictAfter

(* The ticker fires: take heartbeatMu and start ranging over d.lastHeartbeat. *)
cleanupBegin ==
    /\ sweepPc = "idle"
    /\ now = nextSweep
    /\ sweepPc' = "run"
    /\ sweepTodo' = DOMAIN lastHeartbeat
    /\ nextSweep' = nextSweep + SweepInterval
    /\ UNCHANGED <<workers, lastHeartbeat, regCh, hbCh, derCh, regPc, regMsg, derPc,
                   derMsg, now, disp, nSent, lastSent, lastSeen>>
    /\ UNCHANGED jobVars
    /\ UNCHANGED <<agent, unitVars>>

(* A sweeper that forgets the registry. *)
cleanupVisitHeartbeatOnly(w) ==
    /\ sweepPc = "run"
    /\ w \in sweepTodo
    /\ sweepTodo' = sweepTodo \ {w}
    /\ IF Stale(lastHeartbeat[w])
         THEN /\ lastHeartbeat' = MapDelete(lastHeartbeat, w)
              /\ UNCHANGED workers
         ELSE UNCHANGED <<workers, lastHeartbeat>>
    /\ UNCHANGED <<regCh, hbCh, derCh, regPc, regMsg, derPc, derMsg, sweepPc,
                   nextSweep, now, disp, nSent, lastSent, lastSeen>>
    /\ UNCHANGED jobVars
    /\ UNCHANGED <<agent, unitVars>>

(* One iteration of the range loop: a stale entry is deleted from d.workers *)
(* (under workerMu) and from d.lastHeartbeat.                                *)
cleanupVisit(w) ==
    /\ sweepPc = "run"
    /\ w \in sweepTodo
    /\ sweepTodo' = sweepTodo \ {w}
    /\ IF Stale(lastHeartbeat[w])
         THEN /\ workers' = MapDelete(workers, w)
              /\ lastHeartbeat' = MapDelete(lastHeartbeat, w)
         ELSE UNCHANGED <<workers, lastHeartbeat>>
    /\ UNCHANGED <<regCh, hbCh, derCh, regPc, regMsg, derPc, derMsg, sweepPc,
                   nextSweep, now, disp, nSent, lastSent, lastSeen>>
    /\ UNCHANGED jobVars
    /\ UNCHANGED <<agent, unitVars>>

(* The range loop is over: release heartbeatMu. *)
cleanupEnd ==
    /\ sweepPc = "run"
    /\ sweepTodo = {}
    /\ sweepPc' = "idle"
    /\ UNCHANGED <<workers, lastHeartbeat, regCh, hbCh, derCh, regPc, regMsg, derPc,
                   derMsg, sweepTodo, nextSweep, now, disp, nSent, lastSent, lastSeen>>
    /\ UNCHANGED jobVars
    /\ UNCHANGED <<agent, unitVars>>

(* Time passes. A sweep that is due starts before the clock moves on, and *)
(* a running sweep finishes within its instant.                           *)
Tick ==
    /\ now < MaxTime
    /\ sweepPc = "idle"
    /\ now < nextSweep
    /\ now' = now + HeartbeatInterval
    /\ UNCHANGED <<workers, lastHeartbeat, regCh, hbCh, derCh, regPc, regMsg, derPc,
                   derMsg, sweepPc, sweepTodo, nextSweep, disp, nSent, lastSent,
                   lastSeen>>
    /\ UNCHANGED jobVars
    /\ UNCHANGED <<agent, unitVars>>

----------------------------------------------------------------------------
(* GetActiveWorkers and DispatchJob *)

(* The copy of d.workers' values taken under workerMu.RLock. *)
GetActiveWorkers == {workers[k] : k \in DOMAIN workers}

(* models.Job and its zero value. *)
JobFields == {"uuid", "worker_id", "name", "input_data", "output_data", "error",
              "start_at", "done_at", "status", "cycle_uuid", "session_id"}

NoData == [user_id |-> "", action |-> ""]

NoJob == [uuid |-> "", worker_id |-> "", name |-> "", input_data |-> NoData,
          output_data |-> "", error |-> "", start_at |-> 0, done_at |-> 0,
          status |-> "", cycle_uuid |-> "", session_id |-> ""]

TestJob == [NoJob EXCEPT !.uuid = "j0", !.name = "test-job",
                         !.input_data = [task |-> "process_file"],
                         !.status = "pending"]

(* nc.Publish: the bus hands each message to the channel of the subscriber *)
(* of its subject; without a subscriber the message is gone.                *)
RECURSIVE Deliver(_, _)
Deliver(chans, pubs) ==
    IF pubs = <<>>
      THEN chans
      ELSE LET m == Head(pubs)
               next == IF m.subject \in DOMAIN chans
                         THEN [chans EXCEPT ![m.subject] = Append(@, m.data)]
                         ELSE chans
           IN Deliver(next, Tail(pubs))

DispIdle == [pc |-> "idle", job |-> NoJob, snap |-> {}, err |-> "", pubs |-> <<>>]

DispatchOutcomes == {"nil", "marshal_err", "publish_err"}

(* Entry of DispatchJob(ctx, job). *)
DispatchCall(job) == [pc |-> "snapshot", job |-> job, snap |-> {}, err |-> "", pubs |-> <<>>]

(* A snapshot built from the keys of the heartbeat map. *)
DispatchSnapshotOfHeartbeats(d) ==
    [d EXCEPT !.pc = "select",
              !.snap = {[UUID |-> k, Name |-> "W"] : k \in DOMAIN lastHeartbeat}]

(* workers := d.GetActiveWorkers() *)
DispatchSnapshot(d) == [d EXCEPT !.pc = "select", !.snap = GetActiveWorkers]

(* A DispatchJob that publishes the job as it was handed in, unstamped. *)
DispatchSelectUnstamped(d, worker, outcome) ==
    IF d.snap = {}
      THEN [d EXCEPT !.pc = "returned", !.err = "no_workers"]
      ELSE [d EXCEPT !.pc = "returned",
                     !.err = outcome,
                     !.pubs = IF outcome = "nil"
                                THEN <<[subject |-> worker.UUID, data |-> d.job]>>
                                ELSE <<>>]

(* A DispatchJob that stamps the job before it looks at the snapshot. *)
DispatchSelectStampFirst(d, worker, outcome) ==
    LET job == [d.job EXCEPT !.worker_id = worker.UUID] IN
    IF d.snap = {}
      THEN [d EXCEPT !.pc = "returned", !.job = job, !.err = "no_workers"]
      ELSE [d EXCEPT !.pc = "returned",
                     !.job = job,
                     !.err = outcome,
                     !.pubs = IF outcome = "nil"
                                THEN <<[subject |-> worker.UUID, data |-> job]>>
                                ELSE <<>>]

(* The rest of DispatchJob on the snapshot: the no-worker return, or stamp *)
(* job.WorkerID = worker.UUID, marshal, and publish on                     *)
(* dispatcher.job.<worker.UUID>.                                           *)
DispatchSelect(d, worker, outcome) ==
    IF d.snap = {}
      THEN [d EXCEPT !.pc = "returned", !.err = "no_workers"]
      ELSE LET job == [d.job EXCEPT !.worker_id = worker.UUID] IN
           [d EXCEPT !.pc = "returned",
                     !.job = job,
                     !.err = outcome,
                     !.pubs = IF outcome = "nil"
                                THEN <<[subject |-> worker.UUID, data |-> job]>>
                                ELSE <<>>]

(* History of a job the dispatch loop has not published. *)
NotPublished == [n |-> 0, unsaved |-> FALSE]

(* The callers of the stand-alone DispatchJob: main's test goroutine. *)
callDispatch ==
    /\ disp.pc = "idle"
    /\ disp' = DispatchCall(TestJob)
    /\ UNCHANGED <<memberVars, jobVars>>
    /\ UNCHANGED <<agent, unitVars>>

dispatchSnapshot ==
    /\ disp.pc = "snapshot"
    /\ disp' = DispatchSnapshot(disp)
    /\ UNCHANGED <<memberVars, jobVars>>
    /\ UNCHANGED <<agent, unitVars>>

dispatchSelect ==
    /\ disp.pc = "select"
    /\ \E worker \in (IF disp.snap = {} THEN {[UUID |-> "none", Name |-> ""]} ELSE disp.snap),
          outcome \in DispatchOutcomes :
         disp' = DispatchSelect(disp, worker, outcome)
    /\ jobCh' = Deliver(jobCh, disp'.pubs)
    /\ published' = IF disp'.pubs # <<>> /\ disp.job.uuid \in DOMAIN published
                       THEN [published EXCEPT ![disp.job.uuid].n = @ + 1]
                       ELSE published
    /\ UNCHANGED <<memberVars, jobs, cycles, subs, sc, pj, genClosed, nUUID, origin,
                   nCycles, nStoreFail, nTicks>>
    /\ UNCHANGED <<agent, unitVars>>

dispatchReturn ==
    /\ disp.pc = "returned"
    /\ disp' = DispIdle
    /\ UNCHANGED <<memberVars, jobVars>>
    /\ UNCHANGED <<agent, unitVars>>

(* An update of the status column alone. *)
UpdateJobStatusOnly(rows, job) ==
    [u \in DOMAIN rows |->
        IF u = job.uuid THEN [rows[u] EXCEPT !.status = job.status] ELSE rows[u]]

(* The Store: key-addressed rows; Create inserts, Save (Update) overwrites *)
(* the whole row.                                                          *)

CreateJob(rows, job) == MapSet(rows, job.uuid, job)

UpdateJob(rows, job) == MapSet(rows, job.uuid, job)

(* A uuid source that repeats itself. *)
JobUUIDRepeating(n) == "j1"

(* uuid.New() for the n-th job and cycle; the user names the generator streams. *)
JobUUID(n) == "j" \o ToString(n)

CycleUUID(n) == "c" \o ToString(n)

UserName(n) == "u" \o ToString(n)

(* GetJobsByStatus: the rows with the status, in insertion order. *)
GetJobsByStatus(status) ==
    LET all == [n \in 1..nUUID |-> JobUUID(n)]
        has(u) == u \in DOMAIN jobs /\ jobs[u].status = status
        ids == SelectSeq(all, has)
    IN [k \in 1..Len(ids) |-> jobs[ids[k]]]

----------------------------------------------------------------------------
(* JobService.StartCycle *)

Strategies ==
    {s \in [MaxUsers : 0..MaxJobs, MaxFiles : 0..MaxJobs, MaxWorkspaces : 0..MaxJobs] :
        /\ s.MaxFiles + s.MaxWorkspaces <= MaxJobs
        /\ s.MaxUsers * (s.MaxFiles + s.MaxWorkspaces) <= MaxJobs}

NoStrategy == [MaxUsers |-> 0, MaxFiles |-> 0, MaxWorkspaces |-> 0]

NoCycle == [uuid |-> "", name |-> "", strategy |-> NoStrategy, started_at |-> 0,
            done_at |-> 0, status |-> ""]

ScIdle == [pc |-> "idle", cycle |-> NoCycle, i |-> 0, users |-> <<>>, todo |-> <<>>,
           err |-> "", nFailed |-> 0]

actions == <<"create_user", "update_user", "delete_user",
             "create_workspace", "update_workspace", "delete_workspace",
             "upload_file", "download_file", "consult_file">>

(* An action list read one place further on. *)
actionAtShifted(i) == actions[((i + 1) % Len(actions)) + 1]

(* action := actions[i%len(actions)], i counted from 0 *)
actionAt(i) == actions[(i % Len(actions)) + 1]

(* A generator that counts the files only. *)
totalJobsFilesOnly(strategy) == strategy.MaxFiles

(* totalJobs := cycle.Strategy.MaxFiles + cycle.Strategy.MaxWorkspaces *)
totalJobs(strategy) == strategy.MaxFiles + strategy.MaxWorkspaces

(* generateSessionJobs: totalJobs jobs for the session, the i-th (from 0) *)
(* named actions[i % 9], with uuids first+1, first+2, ...                  *)
generateSessionJobs(cycle, session, first) ==
    [k \in 1..totalJobs(cycle.strategy) |->
        LET action == actionAt(k - 1) IN
        [NoJob EXCEPT !.uuid = JobUUID(first + k),
                      !.name = action,
                      !.input_data = [user_id |-> session, action |-> action],
                      !.status = "pending"]]

(* The jobs StartCycle goes on to save: for each user read, the session's *)
(* jobs with job.CycleUUID and job.SessionID set.                          *)
RECURSIVE sessionJobs(_, _, _)
sessionJobs(cycle, users, first) ==
    IF users = <<>>
      THEN <<>>
      ELSE LET session == Head(users)
               gen == generateSessionJobs(cycle, session, first)
               stamped == [k \in 1..Len(gen) |->
                              [gen[k] EXCEPT !.cycle_uuid = cycle.uuid,
                                             !.session_id = session]]
           IN stamped \o sessionJobs(cycle, Tail(users), first + Len(gen))

(* Entry: cycle.UUID, StartedAt, Status are set and the cycle is created; *)
(* a Store error is returned to the caller.                               *)
startCycle(strategy) ==
    /\ sc.pc = "idle"
    /\ nCycles < MaxCycles
    /\ nCycles' = nCycles + 1
    /\ LET cycle == [uuid |-> CycleUUID(nCycles + 1), name |-> "cycle",
                     strategy |-> strategy, started_at |-> now, done_at |-> 0,
                     status |-> "running"]
       IN \/ /\ cycles' = MapSet(cycles, cycle.uuid, cycle)
             /\ sc' = [ScIdle EXCEPT !.pc = "users", !.cycle = cycle]
             /\ UNCHANGED nStoreFail
          \/ /\ nStoreFail < MaxStoreFail
             /\ nStoreFail' = nStoreFail + 1
             /\ sc' = [ScIdle EXCEPT !.pc = "returned", !.cycle = cycle, !.err = "store"]
             /\ UNCHANGED cycles
    /\ UNCHANGED <<regVars, now, disp, jobs, jobCh, subs, pj, genClosed, nUUID, origin, published,
                   nTicks>>
    /\ UNCHANGED <<agent, unitVars>>

(* A user loop that takes what a closed channel yields, the zero User. *)
startCycleReadUserNoOk ==
    /\ sc.pc = "users"
    /\ sc.i < sc.cycle.strategy.MaxUsers
    /\ sc' = [sc EXCEPT !.i = @ + 1,
                        !.users = IF genClosed THEN Append(@, "")
                                  ELSE Append(@, UserName(Len(@) + 1))]
    /\ UNCHANGED <<regVars, now, disp, jobs, cycles, jobCh, subs, pj, genClosed, nUUID,
                   origin, published, nCycles, nStoreFail, nTicks>>
    /\ UNCHANGED <<agent, unitVars>>

(* One iteration of the user loop: a user is read, or the channel is closed *)
(* and the break leaves the select only.                                    *)
startCycleReadUser ==
    /\ sc.pc = "users"
    /\ sc.i < sc.cycle.strategy.MaxUsers
    /\ sc' = [sc EXCEPT !.i = @ + 1,
                        !.users = IF genClosed THEN @
                                  ELSE Append(@, UserName(Len(@) + 1))]
    /\ UNCHANGED <<regVars, now, disp, jobs, cycles, jobCh, subs, pj, genClosed, nUUID,
                   origin, published, nCycles, nStoreFail, nTicks>>
    /\ UNCHANGED <<agent, unitVars>>

(* The user loop is over: the jobs of every session are generated. *)
startCycleGenerate ==
    /\ sc.pc = "users"
    /\ sc.i >= sc.cycle.strategy.MaxUsers
    /\ LET todo == sessionJobs(sc.cycle, sc.users, nUUID) IN
         /\ sc' = [sc EXCEPT !.pc = "persist", !.todo = todo]
         /\ nUUID' = nUUID + Len(todo)
    /\ UNCHANGED <<regVars, now, disp, jobs, cycles, jobCh, subs, pj, genClosed,
                   origin, published, nCycles, nStoreFail, nTicks>>
    /\ UNCHANGED <<agent, unitVars>>

(* s.store.CreateJob for the next job; an error is logged and skipped. *)
startCycleCreateJob ==
    /\ sc.pc = "persist"
    /\ sc.todo # <<>>
    /\ LET job == Head(sc.todo) IN
         \/ /\ jobs' = CreateJob(jobs, job)
            /\ origin' = MapSet(origin, job.uuid, job)
            /\ published' = MapSet(published, job.uuid, NotPublished)
            /\ sc' = [sc EXCEPT !.todo = Tail(@)]
            /\ UNCHANGED nStoreFail
         \/ /\ nStoreFail < MaxStoreFail
            /\ nStoreFail' = nStoreFail + 1
            /\ sc' = [sc EXCEPT !.todo = Tail(@), !.nFailed = @ + 1]
            /\ UNCHANGED <<jobs, origin, published>>
    /\ UNCHANGED <<regVars, now, disp, cycles, jobCh, subs, pj, genClosed, nUUID,
                   nCycles, nTicks>>
    /\ UNCHANGED <<agent, unitVars>>

(* return nil *)
startCycleReturn ==
    /\ sc.pc = "persist"
    /\ sc.todo = <<>>
    /\ sc' = [sc EXCEPT !.pc = "returned", !.err = "nil"]
    /\ UNCHANGED <<regVars, now, disp, jobs, cycles, jobCh, subs, pj, genClosed, nUUID,
                   origin, published, nCycles, nStoreFail, nTicks>>
    /\ UNCHANGED <<agent, unitVars>>

(* The caller has the result. *)
startCycleDone ==
    /\ sc.pc = "returned"
    /\ sc' = ScIdle
    /\ UNCHANGED <<regVars, now, disp, jobs, cycles, jobCh, subs, pj, genClosed, nUUID,
                   origin, published, nCycles, nStoreFail, nTicks>>
    /\ UNCHANGED <<agent, unitVars>>

(* generatorImpl.stopWorkers closes the user channel. *)
stopWorkers ==
    /\ ~genClosed
    /\ genClosed' = TRUE
    /\ UNCHANGED <<regVars, now, disp, jobs, cycles, jobCh, subs, sc, pj, nUUID,
                   origin, published, nCycles, nStoreFail, nTicks>>
    /\ UNCHANGED <<agent, unitVars>>

----------------------------------------------------------------------------
(* The worker agent's job consumer (workerImpl.handleJobs) *)

(* The fields of the worker's own Job struct. *)
WorkerJobFields == {"uuid", "worker_id", "name", "input_data", "output_data", "error",
                    "start_at", "done_at", "status"}

(* A worker whose Job struct is models.Job. *)
WorkerUnmarshalAllFields(data) == data

(* json.Unmarshal(msg.Data, &job) into the worker's Job: the keys the *)
(* struct does not declare are dropped.                                *)
WorkerUnmarshal(data) == [f \in WorkerJobFields |-> data[f]]

(* A worker that publishes the job as it stands at the handler's first *)
(* status assignment.                                                    *)
WorkerProcessUnfinished(job) ==
    [job EXCEPT !.start_at = now,
                !.status = "processing"]

(* The placeholder processing, up to json.Marshal(job). *)
WorkerProcess(job) ==
    [job EXCEPT !.start_at = now,
                !.output_data = "processed",
                !.status = "completed",
                !.done_at = now]

(* json.Unmarshal(msg.Data, &job) into models.Job: absent keys keep the *)
(* zero value.                                                          *)
ModelsUnmarshal(data) ==
    [f \in JobFields |-> IF f \in DOMAIN data THEN data[f] ELSE NoJob[f]]

(* w.nc.Publish("dispatcher.job.result", resultData) *)
PublishOutcomes == {"nil", "publish_err"}

(* Bytes on dispatcher.job.<worker_id> that json.Unmarshal rejects. *)
Undecodable == [json |-> FALSE]

(* A consumer that puts the job back into its channel when the publish *)
(* of the result fails.                                                 *)
handleJobsRequeueing(w) ==
    /\ w \in DOMAIN jobCh
    /\ jobCh[w] # <<>>
    /\ IF Head(jobCh[w]) = Undecodable
         THEN /\ subs' = subs
              /\ jobCh' = [jobCh EXCEPT ![w] = Tail(@)]
         ELSE LET result == WorkerProcess(WorkerUnmarshal(Head(jobCh[w]))) IN
                \E outcome \in PublishOutcomes :
                  IF outcome = "nil"
                    THEN /\ subs' = [i \in DOMAIN subs |->
                                       [subs[i] EXCEPT !.ch = Append(@, result)]]
                         /\ jobCh' = [jobCh EXCEPT ![w] = Tail(@)]
                    ELSE /\ subs' = subs
                         /\ jobCh' = [jobCh EXCEPT ![w] = Append(Tail(@), Head(@))]
    /\ UNCHANGED <<regVars, now, disp, jobs, cycles, sc, pj, genClosed, nUUID, origin, published,
                   nCycles, nStoreFail, nTicks>>
    /\ UNCHANGED <<agent, unitVars>>

(* One job message: decode (bytes that do not decode are logged and      *)
(* dropped), process, publish the result on                              *)
(* dispatcher.job.result, which the bus copies to every subscription;   *)
(* a publish error is logged and the handler takes the next message.    *)
handleJobs(w) ==
    /\ w \in DOMAIN jobCh
    /\ jobCh[w] # <<>>
    /\ IF Head(jobCh[w]) = Undecodable
         THEN subs' = subs
         ELSE LET result == WorkerProcess(WorkerUnmarshal(Head(jobCh[w]))) IN
                \E outcome \in PublishOutcomes :
                  subs' = IF outcome = "nil"
                            THEN [i \in DOMAIN subs |->
                                    [subs[i] EXCEPT !.ch = Append(@, result)]]
                            ELSE subs
    /\ jobCh' = [jobCh EXCEPT ![w] = Tail(@)]
    /\ UNCHANGED <<regVars, now, disp, jobs, cycles, sc, pj, genClosed, nUUID, origin, published,
                   nCycles, nStoreFail, nTicks>>
    /\ UNCHANGED <<agent, unitVars>>

----------------------------------------------------------------------------
(* JobService.ProcessJobs and its result handlers *)

PjIdle == [pc |-> "wait", todo |-> <<>>]

NewSub == [ch |-> <<>>, pc |-> "recv", job |-> NoJob, nPending |-> 0]

(* A tick that loads the dispatched jobs as well as the pending ones. *)
processJobsTickReloading ==
    /\ pj.pc = "wait"
    /\ nTicks < MaxPJTicks
    /\ nTicks' = nTicks + 1
    /\ now' = now + DispatchInterval
    /\ pj' = [pc |-> "dispatch",
              todo |-> GetJobsByStatus("pending") \o GetJobsByStatus("dispatched")]
    /\ UNCHANGED <<regVars, disp, jobs, cycles, jobCh, subs, sc, genClosed, nUUID,
                   origin, published, nCycles, nStoreFail>>
    /\ UNCHANGED <<agent, unitVars>>

(* The ticker fires: the pending jobs are loaded. *)
processJobsTick ==
    /\ pj.pc = "wait"
    /\ nTicks < MaxPJTicks
    /\ nTicks' = nTicks + 1
    /\ now' = now + DispatchInterval
    /\ pj' = [pc |-> "dispatch", todo |-> GetJobsByStatus("pending")]
    /\ UNCHANGED <<regVars, disp, jobs, cycles, jobCh, subs, sc, genClosed, nUUID,
                   origin, published, nCycles, nStoreFail>>
    /\ UNCHANGED <<agent, unitVars>>

(* s.dispatcher.DispatchJob(ctx, &job) for the next loaded job. *)
processJobsDispatch ==
    /\ pj.pc = "dispatch"
    /\ pj.todo # <<>>
    /\ disp.pc = "idle"
    /\ disp' = DispatchCall(Head(pj.todo))
    /\ pj' = [pj EXCEPT !.pc = "indispatch"]
    /\ UNCHANGED <<regVars, now, jobs, cycles, jobCh, subs, sc, genClosed, nUUID,
                   origin, published, nCycles, nStoreFail, nTicks>>
    /\ UNCHANGED <<agent, unitVars>>

(* A loop that goes on to the next job without saving the dispatched one. *)
processJobsUpdateUnsaved ==
    /\ pj.pc = "indispatch"
    /\ disp.pc = "returned"
    /\ disp' = DispIdle
    /\ pj' = [pc |-> "dispatch", todo |-> Tail(pj.todo)]
    /\ UNCHANGED <<regVars, now, jobs, cycles, jobCh, subs, sc, genClosed, nUUID, origin,
                   published, nCycles, nStoreFail, nTicks>>
    /\ UNCHANGED <<agent, unitVars>>

(* DispatchJob has returned: on an error the job is skipped; otherwise the *)
(* loaded copy, stamped by DispatchJob, is saved with status dispatched.    *)
processJobsUpdate ==
    /\ pj.pc = "indispatch"
    /\ disp.pc = "returned"
    /\ disp' = DispIdle
    /\ pj' = [pc |-> "dispatch", todo |-> Tail(pj.todo)]
    /\ IF disp.err # "nil"
         THEN UNCHANGED <<jobs, nStoreFail, published>>
         ELSE \/ /\ jobs' = UpdateJob(jobs, [disp.job EXCEPT !.status = "dispatched"])
                 /\ UNCHANGED <<nStoreFail, published>>
              \/ /\ nStoreFail < MaxStoreFail
                 /\ nStoreFail' = nStoreFail + 1
                 /\ published' = [published EXCEPT ![disp.job.uuid].unsaved = TRUE]
                 /\ UNCHANGED jobs
    /\ UNCHANGED <<regVars, now, cycles, jobCh, subs, sc, genClosed, nUUID, origin,
                   nCycles, nTicks>>
    /\ UNCHANGED <<agent, unitVars>>

(* After the loop: a new subscription to dispatcher.job.result and a new *)
(* handler goroutine, on every tick.                                      *)
processJobsSubscribe ==
    /\ pj.pc = "dispatch"
    /\ pj.todo = <<>>
    /\ subs' = Append(subs, NewSub)
    /\ pj' = PjIdle
    /\ UNCHANGED <<regVars, now, disp, jobs, cycles, jobCh, sc, genClosed, nUUID,
                   origin, published, nCycles, nStoreFail, nTicks>>
    /\ UNCHANGED <<agent, unitVars>>

(* A handler takes a result: decode into models.Job and save the row; on a *)
(* Store error the message is skipped.                                      *)
resultUpdateJob(i) ==
    /\ subs[i].pc = "recv"
    /\ subs[i].ch # <<>>
    /\ LET job == ModelsUnmarshal(Head(subs[i].ch)) IN
         \/ /\ jobs' = UpdateJob(jobs, job)
            /\ subs' = [subs EXCEPT ![i] = [@ EXCEPT !.ch = Tail(@), !.pc = "pending",
                                                     !.job = job]]
            /\ UNCHANGED nStoreFail
         \/ /\ nStoreFail < MaxStoreFail
            /\ nStoreFail' = nStoreFail + 1
            /\ subs' = [subs EXCEPT ![i] = [@ EXCEPT !.ch = Tail(@)]]
            /\ UNCHANGED jobs
    /\ UNCHANGED <<regVars, now, disp, cycles, jobCh, sc, pj, genClosed, nUUID, origin, published,
                   nCycles, nTicks>>
    /\ UNCHANGED <<agent, unitVars>>

(* checkCycleCompletion, first query: the pending jobs, of any cycle. *)
checkCycleCompletionPending(i) ==
    /\ subs[i].pc = "pending"
    /\ subs' = [subs EXCEPT ![i] = [@ EXCEPT !.pc = "dispatched",
                                             !.nPending = Len(GetJobsByStatus("pending"))]]
    /\ UNCHANGED <<regVars, now, disp, jobs, cycles, jobCh, sc, pj, genClosed, nUUID,
                   origin, published, nCycles, nStoreFail, nTicks>>
    /\ UNCHANGED <<agent, unitVars>>

(* checkCycleCompletion, second query and the completion: with no pending *)
(* and no dispatched job the cycle of the result's cycle_uuid is loaded,   *)
(* marked completed and saved; a cycle that is not found is an error.      *)
checkCycleCompletionDispatched(i) ==
    /\ subs[i].pc = "dispatched"
    /\ LET cycleUUID == subs[i].job.cycle_uuid IN
         IF subs[i].nPending + Len(GetJobsByStatus("dispatched")) = 0
              /\ cycleUUID \in DOMAIN cycles
           THEN cycles' = [cycles EXCEPT ![cycleUUID] =
                              [@ EXCEPT !.status = "completed", !.done_at = now]]
           ELSE UNCHANGED cycles
    /\ subs' = [subs EXCEPT ![i] = [@ EXCEPT !.pc = "recv", !.job = NoJob, !.nPending = 0]]
    /\ UNCHANGED <<regVars, now, disp, jobs, jobCh, sc, pj, genClosed, nUUID, origin, published,
                   nCycles, nStoreFail, nTicks>>
    /\ UNCHANGED <<agent, unitVars>>

InitJobService ==
    /\ jobs = EmptyMap
    /\ cycles = EmptyMap
    /\ subs = <<>>
    /\ sc = ScIdle
    /\ pj = PjIdle
    /\ genClosed = FALSE
    /\ nUUID = 0
    /\ origin = EmptyMap
    /\ published = EmptyMap
    /\ nCycles = 0
    /\ nStoreFail = 0
    /\ nTicks = 0

----------------------------------------------------------------------------
(* The dispatcher with its membership traffic *)

InitBus ==
    /\ workers = EmptyMap
    /\ lastHeartbeat = EmptyMap
    /\ regCh = <<>>
    /\ hbCh = <<>>
    /\ derCh = <<>>
    /\ regPc = "idle"
    /\ regMsg = NoMsg
    /\ derPc = "idle"
    /\ derMsg = NoMsg
    /\ sweepPc = "idle"
    /\ sweepTodo = {}
    /\ now = StartTime
    /\ nextSweep = StartTime + SweepInterval
    /\ disp = DispIdle
    /\ nSent = 0
    /\ lastSent = [w \in WorkerIDs |-> "none"]
    /\ lastSeen = [w \in WorkerIDs |-> 0]
    /\ InitJobService
    /\ jobCh = EmptyMap

Init ==
    /\ InitBus
    /\ agent = NoAgent
    /\ InitUnits

Next ==
    \/ \E w \in WorkerIDs : Register(w)
    \/ \E w \in WorkerIDs : Heartbeat(w)
    \/ \E w \in WorkerIDs : Deregister(w)
    \/ \E subject \in Statuses : publishUnexpected(subject)
    \/ handleRegistrationsWorkers
    \/ handleRegistrationsHeartbeat
    \/ handleHeartbeats
    \/ handleDeregistrationsWorkers
    \/ handleDeregistrationsHeartbeat
    \/ cleanupBegin
    \/ \E w \in WorkerIDs : cleanupVisit(w)
    \/ cleanupEnd
    \/ Tick
    \/ callDispatch
    \/ dispatchSnapshot
    \/ dispatchSelect
    \/ dispatchReturn

Spec == Init /\ [][Next]_vars

----------------------------------------------------------------------------
(* JobService with the workers of a registry that has handled the *)
(* registrations of the workers in it                              *)

InitJob ==
    \E R \in SUBSET WorkerIDs :
        /\ workers = [w \in R |-> Worker(RegistrationMessage(w))]
        /\ lastHeartbeat = [w \in R |-> StartTime]
        /\ lastSeen = [w \in WorkerIDs |-> IF w \in R THEN StartTime ELSE 0]
        /\ lastSent = [w \in WorkerIDs |-> IF w \in R THEN "registered" ELSE "none"]
        /\ nSent = Cardinality(R)
        /\ jobCh = [w \in R |-> <<>>]
        /\ regCh = <<>>
        /\ hbCh = <<>>
        /\ derCh = <<>>
        /\ regPc = "idle"
        /\ regMsg = NoMsg
        /\ derPc = "idle"
        /\ derMsg = NoMsg
        /\ sweepPc = "idle"
        /\ sweepTodo = {}
        /\ now = StartTime
        /\ nextSweep = StartTime + SweepInterval
        /\ disp = DispIdle
        /\ InitJobService
        /\ agent = NoAgent
        /\ InitUnits

NextJob ==
    \/ \E s \in Strategies : startCycle(s)
    \/ startCycleReadUser
    \/ startCycleGenerate
    \/ startCycleCreateJob
    \/ startCycleReturn
    \/ startCycleDone
    \/ stopWorkers
    \/ processJobsTick
    \/ processJobsDispatch
    \/ dispatchSnapshot
    \/ dispatchSelect
    \/ processJobsUpdate
    \/ processJobsSubscribe
    \/ \E i \in DOMAIN subs : resultUpdateJob(i)
    \/ \E i \in DOMAIN subs : checkCycleCompletionPending(i)
    \/ \E i \in DOMAIN subs : checkCycleCompletionDispatched(i)
    \/ \E w \in WorkerIDs : handleJobs(w)

SpecJob == InitJob /\ [][NextJob]_vars

----------------------------------------------------------------------------
(* Properties of the membership plane and of DispatchJob *)

(* No membership message is queued or half handled, and no sweep is running. *)
Quiescent ==
    /\ regCh = <<>>
    /\ hbCh = <<>>
    /\ derCh = <<>>
    /\ regPc = "idle"
    /\ derPc = "idle"
    /\ sweepPc = "idle"

(* C1. Liveness convergence: a worker whose last register or heartbeat was   *)
(* processed at time T and that sent nothing afterwards is absent from       *)
(* GetActiveWorkers at every query made at or after T + 25 s (here: once the *)
(* sweep due at that instant, if any, has run).                               *)
C1_LivenessConvergence ==
    \A w \in WorkerIDs :
        ( /\ Quiescent
          /\ lastSeen[w] # 0
          /\ now >= lastSeen[w] + EvictAfter + SweepInterval
          /\ now < nextSweep )
        => w \notin {wk.UUID : wk \in GetActiveWorkers}

(* C2. No ghost heartbeats: handling a heartbeat whose worker_id is absent   *)
(* from the registry creates no entry; GetActiveWorkers returns the same set *)
(* before and after.                                                         *)
C2_NoGhostHeartbeats ==
    [][ ( /\ hbCh # <<>>
          /\ hbCh' = Tail(hbCh)
          /\ Head(hbCh).worker_id \notin DOMAIN workers )
        => /\ workers' = workers
           /\ GetActiveWorkers' = GetActiveWorkers ]_vars

(* A heartbeat of a worker for which no register was ever published has been *)
(* handled, and the worker is not in the registry.                           *)
C2_Witness ==
    \E w \in WorkerIDs :
        /\ lastSent[w] = "none"
        /\ w \in DOMAIN lastHeartbeat
        /\ lastSeen[w] # 0
        /\ w \notin DOMAIN workers

(* C3. Dispatch targets live workers only: when DispatchJob returns nil it   *)
(* has published exactly one message, on dispatcher.job.<id>, where <id> is  *)
(* the worker_id stamped into the serialized job and the id of a worker of   *)
(* the snapshot taken during the call; registry keys are the workers' ids.   *)
C3_DispatchTargetsSnapshot ==
    /\ \A k \in DOMAIN workers : workers[k].UUID = k
    /\ (disp.pc = "returned" /\ disp.err = "nil")
         => /\ Len(disp.pubs) = 1
            /\ disp.pubs[1].subject = disp.pubs[1].data.worker_id
            /\ disp.pubs[1].subject = disp.job.worker_id
            /\ \E wk \in disp.snap : wk.UUID = disp.pubs[1].subject
            /\ disp.pubs[1].data.uuid = disp.job.uuid

(* DispatchJob returned nil for a worker that left the registry after the *)
(* snapshot was taken.                                                     *)
C3_Witness ==
    /\ disp.pc = "returned"
    /\ disp.err = "nil"
    /\ disp.job.worker_id \in WorkerIDs
    /\ disp.job.worker_id \notin DOMAIN workers

(* C4. DispatchJob on an empty snapshot returns the no-workers error,    *)
(* publishes nothing and leaves the job, its worker_id included, as it was. *)
C4_DispatchEmptyRegistry ==
    [][ (disp.pc = "select" /\ disp.snap = {} /\ disp' # disp)
        => /\ disp'.pc = "returned"
           /\ disp'.err = "no_workers"
           /\ disp'.pubs = <<>>
           /\ disp'.job = disp.job ]_vars

(* DispatchJob has returned the no-workers error. *)
C4_Witness ==
    /\ disp.pc = "returned"
    /\ disp.err = "no_workers"
    /\ disp.snap = {}
    /\ disp.pubs = <<>>

(* C10. Registry serialization: once every register and deregister message  *)
(* published for an id has been handled (and before any sweep), the registry *)
(* holds the id iff the last of them published was a register.               *)
C10_RegistrySerialization ==
    \A w \in WorkerIDs :
        ( /\ Quiescent
          /\ nextSweep = StartTime + SweepInterval )
        => (w \in DOMAIN workers <=> lastSent[w] = "registered")

(* C11. Per-worker membership state machine: an id enters the registry only  *)
(* when a registered message for it is taken from the register subject, and   *)
(* the handling of that message ends with its last-heartbeat time set to now; *)
(* handling a heartbeat leaves the registry as it is; an id leaves the        *)
(* registry only when a deregistered message for it is taken, whose handling  *)
(* ends with the id out of the heartbeat map too, or when a sweep finds its   *)
(* last heartbeat older than 15 s and removes it from both maps.              *)
C11_MembershipStateMachine ==
    [][\A w \in WorkerIDs :
         /\ (w \notin DOMAIN workers /\ w \in DOMAIN workers')
              => /\ regCh # <<>>
                 /\ regCh' = Tail(regCh)
                 /\ Head(regCh).json
                 /\ Head(regCh).status = "registered"
                 /\ Head(regCh).worker_id = w
                 /\ regPc' = "hb"
         /\ (regPc = "hb" /\ regPc' = "idle" /\ regMsg.worker_id = w)
              => /\ w \in DOMAIN lastHeartbeat'
                 /\ lastHeartbeat'[w] = now
         /\ (hbCh # <<>> /\ hbCh' = Tail(hbCh)) => workers' = workers
         /\ (w \in DOMAIN workers /\ w \notin DOMAIN workers')
              => \/ /\ derCh # <<>>
                    /\ derCh' = Tail(derCh)
                    /\ Head(derCh).json
                    /\ Head(derCh).status = "deregistered"
                    /\ Head(derCh).worker_id = w
                    /\ derPc' = "hb"
                 \/ /\ sweepPc = "run"
                    /\ w \in DOMAIN lastHeartbeat
                    /\ now - lastHeartbeat[w] > EvictAfter
                    /\ w \notin DOMAIN lastHeartbeat'
         /\ (derPc = "hb" /\ derPc' = "idle" /\ derMsg.worker_id = w)
              => w \notin DOMAIN lastHeartbeat']_vars

(* The only message ever published was a register for w, it has been handled, *)
(* and w is in neither map: a sweep has evicted it.                            *)
C11_Witness ==
    \E w \in WorkerIDs :
        /\ nSent = 1
        /\ lastSent[w] = "registered"
        /\ lastSeen[w] # 0
        /\ Quiescent
        /\ w \notin DOMAIN workers
        /\ w \notin DOMAIN lastHeartbeat

(* C12. Re-use of a worker id: when the last register or deregister published *)
(* for w was a register, every membership message has been handled, and no    *)
(* heartbeat entry can be stale yet, w is in the registry.                     *)
C12_ReuseOfWorkerId ==
    \A w \in WorkerIDs :
        ( /\ Quiescent
          /\ lastSent[w] = "registered"
          /\ now <= StartTime + EvictAfter )
        => w \in DOMAIN workers

(* C15. A message taken from a membership subject that does not decode, or    *)
(* whose status is not the subject's literal, leaves the registry and the     *)
(* heartbeat map as they are, and the consumer is back at its receive.        *)
C15_UnexpectedMessagesDropped ==
    [][ /\ ( /\ regCh # <<>>
             /\ regPc = "idle"
             /\ regCh' = Tail(regCh)
             /\ (~Head(regCh).json \/ Head(regCh).status # "registered") )
          => /\ workers' = workers
             /\ lastHeartbeat' = lastHeartbeat
             /\ regPc' = "idle"
        /\ ( /\ hbCh # <<>>
             /\ hbCh' = Tail(hbCh)
             /\ (~Head(hbCh).json \/ Head(hbCh).status # "heartbeat") )
          => /\ workers' = workers
             /\ lastHeartbeat' = lastHeartbeat
        /\ ( /\ derCh # <<>>
             /\ derPc = "idle"
             /\ derCh' = Tail(derCh)
             /\ (~Head(derCh).json \/ Head(derCh).status # "deregistered") )
          => /\ workers' = workers
             /\ lastHeartbeat' = lastHeartbeat
             /\ derPc' = "idle" ]_vars

(* One message was published, no register, no deregister and, as the heartbeat *)
(* map is empty before any sweep could run, no heartbeat: it was unexpected    *)
(* and has been taken and dropped.                                             *)
C15_Witness ==
    /\ nSent = 1
    /\ \A w \in WorkerIDs : lastSent[w] = "none"
    /\ Quiescent
    /\ now = StartTime
    /\ workers = EmptyMap
    /\ lastHeartbeat = EmptyMap

----------------------------------------------------------------------------
(* Properties of JobService, under SpecJob *)

Terminal == {"completed", "failed"}

NonTerminal == {"pending", "dispatched", "processing"}

(* The jobs start_cycle created for cycle c. *)
JobsOf(c) == {j \in DOMAIN origin : origin[j].cycle_uuid = c}

(* C5: round trip. Every result on dispatcher.job.result, decoded as the   *)
(* JobService decodes it, has the uuid, name, input_data, cycle_uuid and    *)
(* session_id of the job as created, the worker_id of a worker, and status  *)
(* completed with start_at, done_at and output_data set; and every Store    *)
(* row written from a result keeps the job's cycle_uuid and session_id.     *)
C5_RoundTrip ==
    /\ \A i \in DOMAIN subs : \A k \in DOMAIN subs[i].ch :
         LET r == ModelsUnmarshal(subs[i].ch[k]) IN
           /\ r.uuid \in DOMAIN origin
           /\ r.name = origin[r.uuid].name
           /\ r.input_data = origin[r.uuid].input_data
           /\ r.worker_id \in WorkerIDs
           /\ r.status = "completed"
           /\ r.start_at # 0
           /\ r.done_at # 0
           /\ r.output_data # ""
           /\ r.cycle_uuid = origin[r.uuid].cycle_uuid
           /\ r.session_id = origin[r.uuid].session_id
    /\ \A j \in DOMAIN jobs :
         jobs[j].status = "completed" =>
           /\ jobs[j].cycle_uuid = origin[j].cycle_uuid
           /\ jobs[j].session_id = origin[j].session_id

(* C6: cycle closure. When start_cycle is over for a cycle with jobs, every *)
(* job of the cycle is terminal since a dispatch interval or more, and no   *)
(* result is waiting or being handled, the cycle row is completed with      *)
(* done_at set after started_at.                                            *)
C6_CycleClosure ==
    \A c \in DOMAIN cycles :
      ( /\ sc.pc = "idle"
        /\ pj.pc = "wait"
        /\ JobsOf(c) # {}
        /\ \A j \in JobsOf(c) : /\ jobs[j].status \in Terminal
                                /\ jobs[j].done_at + DispatchInterval <= now
        /\ \A i \in DOMAIN subs : subs[i].pc = "recv" /\ subs[i].ch = <<>>
        /\ \A w \in DOMAIN jobCh : jobCh[w] = <<>> )
      => /\ cycles[c].status = "completed"
         /\ cycles[c].done_at > cycles[c].started_at

(* C7 as stated: when start_cycle returns ok, the Store holds              *)
(* max_users * (max_files + max_workspaces) job rows with the cycle's uuid. *)
C7_JobCountOriginal ==
    (sc.pc = "returned" /\ sc.err = "nil") =>
      Cardinality({j \in DOMAIN jobs : jobs[j].cycle_uuid = sc.cycle.uuid})
        = sc.cycle.strategy.MaxUsers
            * (sc.cycle.strategy.MaxFiles + sc.cycle.strategy.MaxWorkspaces)

(* C7, amended: when start_cycle returns ok, the number of job rows it      *)
(* created for the cycle is users_read * (max_files + max_workspaces) minus *)
(* the jobs whose create failed, where users_read <= max_users, with        *)
(* equality when the user stream was not closed.                            *)
C7_JobCount ==
    (sc.pc = "returned" /\ sc.err = "nil") =>
      /\ Cardinality(JobsOf(sc.cycle.uuid)) + sc.nFailed
           = Len(sc.users)
               * (sc.cycle.strategy.MaxFiles + sc.cycle.strategy.MaxWorkspaces)
      /\ Len(sc.users) <= sc.cycle.strategy.MaxUsers
      /\ ~genClosed => Len(sc.users) = sc.cycle.strategy.MaxUsers

(* start_cycle has returned ok with fewer users than max_users and has     *)
(* created jobs for the users it read.                                      *)
C7_Witness ==
    /\ sc.pc = "returned"
    /\ sc.err = "nil"
    /\ Len(sc.users) < sc.cycle.strategy.MaxUsers
    /\ JobsOf(sc.cycle.uuid) # {}

C9_JobTerminal ==
    [][\A j \in DOMAIN jobs :
         jobs[j].status \in Terminal =>
           /\ jobs[j].done_at # 0
           /\ jobs'[j].status \in Terminal
           /\ jobs'[j].worker_id = jobs[j].worker_id]_vars

(* The step of the dispatch loop that follows the return of DispatchJob. *)
AfterDispatch == pj.pc = "indispatch" /\ pj'.pc = "dispatch"

C14_SingleResultConsumer == Len(subs) <= 1

(* The step in which worker w takes a job message. *)
TakesJob(w) == w \in DOMAIN jobCh /\ jobCh[w] # <<>> /\ jobCh'[w] = Tail(jobCh[w])

(* The result r answers the job message m. *)
Answers(r, m) ==
    /\ r.uuid = m.uuid
    /\ r.worker_id = m.worker_id
    /\ r.start_at # 0
    /\ r.done_at # 0
    /\ r.start_at <= r.done_at
    /\ r.output_data # ""
    /\ r.status \in Terminal

(* C19 as stated: for every job message a worker takes, every subscription *)
(* to dispatcher.job.result receives exactly one message, and it answers    *)
(* the job.                                                                 *)
C19_OneResultPerJobOriginal ==
    [][\A w \in WorkerIDs :
         TakesJob(w) =>
           \A i \in DOMAIN subs :
             /\ Len(subs'[i].ch) = Len(subs[i].ch) + 1
             /\ Answers(subs'[i].ch[Len(subs'[i].ch)], Head(jobCh[w]))]_vars

(* C19, amended: for every job message a worker takes, either the publish  *)
(* of the result failed and no subscription receives anything, or every     *)
(* subscription receives exactly one message, which answers the job.        *)
C19_OneResultPerJob ==
    [][\A w \in WorkerIDs :
         TakesJob(w) =>
           \/ subs' = subs
           \/ \A i \in DOMAIN subs :
                /\ Len(subs'[i].ch) = Len(subs[i].ch) + 1
                /\ SubSeq(subs'[i].ch, 1, Len(subs[i].ch)) = subs[i].ch
                /\ Answers(subs'[i].ch[Len(subs'[i].ch)], Head(jobCh[w]))]_vars

(* A subscription holds a result while the job's row is still dispatched. *)
C19_Witness ==
    \E i \in DOMAIN subs :
        /\ subs[i].ch # <<>>
        /\ Head(subs[i].ch).uuid \in DOMAIN jobs
        /\ jobs[Head(subs[i].ch).uuid].status = "dispatched"
        /\ Head(subs[i].ch).worker_id = jobs[Head(subs[i].ch).uuid].worker_id

(* C20. start_cycle creates the cycle row, under a uuid no cycle row has,   *)
(* with started_at = now and status running; every job row it creates gets *)
(* a uuid no job row has, status pending, the uuid of that cycle, whose row *)
(* exists, and as session_id the name of one of the users read, the user of *)
(* its input data; and the jobs still to be created have uuids of their own. *)
C20_StartCyclePersists ==
    [][ /\ \A c \in DOMAIN cycles' \ DOMAIN cycles :
             /\ sc.pc = "idle"
             /\ cycles'[c].uuid = c
             /\ cycles'[c].started_at = now
             /\ cycles'[c].status = "running"
             /\ cycles'[c].done_at = 0
             /\ \A j \in DOMAIN jobs : jobs[j].cycle_uuid # c
        /\ \A j \in DOMAIN jobs' \ DOMAIN jobs :
             /\ jobs'[j].uuid = j
             /\ jobs'[j].status = "pending"
             /\ jobs'[j].cycle_uuid = sc.cycle.uuid
             /\ sc.cycle.uuid \in DOMAIN cycles
             /\ \E k \in DOMAIN sc.users : jobs'[j].session_id = sc.users[k]
             /\ jobs'[j].input_data.user_id = jobs'[j].session_id
        /\ \A j \in DOMAIN jobs : j \in DOMAIN jobs'
        /\ sc'.pc = "persist" =>
             \A k, l \in DOMAIN sc'.todo :
                /\ sc'.todo[k].uuid \notin DOMAIN jobs'
                /\ k # l => sc'.todo[k].uuid # sc'.todo[l].uuid ]_vars

(* Two jobs of one cycle have been created for two users. *)
C20_Witness ==
    \E j1, j2 \in DOMAIN origin :
        /\ j1 # j2
        /\ origin[j1].cycle_uuid = origin[j2].cycle_uuid
        /\ origin[j1].session_id # origin[j2].session_id
        /\ j1 \in DOMAIN jobs
        /\ j2 \in DOMAIN jobs

----------------------------------------------------------------------------
(* The worker agent's life: Start, the heartbeat goroutine, Stop.  Two      *)
(* implementations exist: Worker (src/worker/worker.go) and workerImpl      *)
(* (src/job/service.go).  agent.events lists, in order, what the agent has  *)
(* done on the bus: "connected" (IsConnected answered true in Start),       *)
(* "registered", "subscribed", "hb_started", "heartbeat", "deregistered".   *)

Impls == {"Worker", "workerImpl"}

otherVars == <<memberVars, disp, jobVars, unitVars>>

Beats == Cardinality({i \in DOMAIN agent.events : agent.events[i] = "heartbeat"})

\* the NATS connection drops and comes back on its own
Disconnect ==
    /\ agent.connected
    /\ agent' = [agent EXCEPT !.connected = FALSE]
    /\ UNCHANGED otherVars

Reconnect ==
    /\ ~agent.connected
    /\ agent' = [agent EXCEPT !.connected = TRUE]
    /\ UNCHANGED otherVars

\* Worker.Start, its own IsConnected check
WorkerStart ==
    /\ agent.impl = "Worker"
    /\ agent.pc = "new"
    /\ IF ~agent.connected
       THEN agent' = [agent EXCEPT !.pc = "failed", !.err = "not_connected"]
       ELSE agent' = [agent EXCEPT !.pc = "register",
                                   !.events = Append(@, "connected")]
    /\ UNCHANGED otherVars

\* Worker.Start calling Worker.Register, then `go w.Heartbeat()`, return nil
WorkerStartRegister ==
    /\ agent.impl = "Worker"
    /\ agent.pc = "register"
    /\ IF ~agent.connected
       THEN agent' = [agent EXCEPT !.pc = "failed", !.err = "not_connected"]
       ELSE \E outcome \in PublishOutcomes :
              IF outcome = "nil"
              THEN agent' = [agent EXCEPT
                       !.pc = "running", !.hb = "wait",
                       !.events = @ \o <<"registered", "hb_started">>]
              ELSE agent' = [agent EXCEPT !.pc = "failed", !.err = outcome]
    /\ UNCHANGED otherVars

\* workerImpl.Start: the registration is published with no connectivity check
workerImplStart ==
    /\ agent.impl = "workerImpl"
    /\ agent.pc = "new"
    /\ \E outcome \in PublishOutcomes :
         IF outcome = "nil"
         THEN agent' = [agent EXCEPT !.pc = "subscribe",
                                     !.events = Append(@, "registered")]
         ELSE agent' = [agent EXCEPT !.pc = "failed", !.err = outcome]
    /\ UNCHANGED otherVars

\* workerImpl.Start: subscribe, `go w.handleJobs`, `go w.sendHeartbeats`
workerImplStartSubscribe ==
    /\ agent.impl = "workerImpl"
    /\ agent.pc = "subscribe"
    /\ \E outcome \in {"nil", "subscribe_err"} :
         IF outcome = "nil"
         THEN agent' = [agent EXCEPT
                  !.pc = "running", !.subscribed = TRUE, !.hb = "wait",
                  !.events = @ \o <<"subscribed", "hb_started">>]
         ELSE agent' = [agent EXCEPT !.pc = "failed", !.err = outcome]
    /\ UNCHANGED otherVars

\* the heartbeat goroutine's select takes the ticker's case; a select with
\* both cases ready takes either, so cancellation does not exclude it
heartbeatTick ==
    /\ agent.hb = "wait"
    /\ Beats < MaxBeats
    /\ agent' = [agent EXCEPT !.hb = "fire"]
    /\ UNCHANGED otherVars

\* the heartbeat goroutine's select takes ctx.Done()
heartbeatDone ==
    /\ agent.hb = "wait"
    /\ agent.cancelled
    /\ agent' = [agent EXCEPT !.hb = "done"]
    /\ UNCHANGED otherVars

\* the body of the ticker's case: Worker.Heartbeat asks IsConnected first,
\* workerImpl.sendHeartbeats publishes at once
heartbeatPublish ==
    /\ agent.hb = "fire"
    /\ IF agent.impl = "Worker" /\ ~agent.connected
       THEN agent' = [agent EXCEPT !.hb = "wait"]
       ELSE \E outcome \in PublishOutcomes :
              IF outcome = "nil"
              THEN agent' = [agent EXCEPT !.hb = "wait",
                                          !.events = Append(@, "heartbeat")]
              ELSE agent' = [agent EXCEPT !.hb = "wait"]
    /\ UNCHANGED otherVars

\* Worker.Stop: w.cancel()
WorkerStop ==
    /\ agent.impl = "Worker"
    /\ agent.pc = "running"
    /\ agent' = [agent EXCEPT !.pc = "deregister", !.cancelled = TRUE]
    /\ UNCHANGED otherVars

\* Worker.Stop calling Worker.Deregister
WorkerStopDeregister ==
    /\ agent.impl = "Worker"
    /\ agent.pc = "deregister"
    /\ IF ~agent.connected
       THEN agent' = [agent EXCEPT !.pc = "stop_failed", !.err = "not_connected"]
       ELSE \E outcome \in PublishOutcomes :
              IF outcome = "nil"
              THEN agent' = [agent EXCEPT !.pc = "stopped",
                                          !.events = Append(@, "deregistered")]
              ELSE agent' = [agent EXCEPT !.pc = "stop_failed", !.err = outcome]
    /\ UNCHANGED otherVars

\* the OnStop hook of NewWorker: cancel(), return nil
workerImplOnStop ==
    /\ agent.impl = "workerImpl"
    /\ agent.pc = "running"
    /\ agent' = [agent EXCEPT !.pc = "stopped", !.cancelled = TRUE]
    /\ UNCHANGED otherVars

\* the goroutine of workerImpl.subscribe: <-ctx.Done(), Unsubscribe, close
workerImplUnsubscribe ==
    /\ agent.subscribed
    /\ agent.cancelled
    /\ agent' = [agent EXCEPT !.subscribed = FALSE]
    /\ UNCHANGED otherVars

InitWorker ==
    /\ InitBus
    /\ \E i \in Impls, c \in BOOLEAN :
         agent = [NoAgent EXCEPT !.impl = i, !.connected = c]
    /\ InitUnits

NextWorker ==
    \/ Disconnect
    \/ Reconnect
    \/ WorkerStart
    \/ WorkerStartRegister
    \/ workerImplStart
    \/ workerImplStartSubscribe
    \/ heartbeatTick
    \/ heartbeatDone
    \/ heartbeatPublish
    \/ WorkerStop
    \/ WorkerStopDeregister
    \/ workerImplOnStop
    \/ workerImplUnsubscribe

SpecWorker == InitWorker /\ [][NextWorker]_vars

Started == agent.pc \in {"running", "deregister", "stopped", "stop_failed"}

Position(e) ==
    IF \E i \in DOMAIN agent.events : agent.events[i] = e
    THEN CHOOSE i \in DOMAIN agent.events :
            /\ agent.events[i] = e
            /\ \A k \in DOMAIN agent.events : agent.events[k] = e => i <= k
    ELSE 0

\* C17: a worker whose Start returned nil has, in this order, confirmed the
\* bus connection, published "registered", subscribed to its job subject and
\* started its heartbeat ticker; a worker whose Start failed on connectivity
\* or on the register publish has no subscription and no heartbeat.
C17_WorkerStartOrdering ==
    /\ Started =>
         /\ 0 < Position("connected")
         /\ Position("connected") < Position("registered")
         /\ Position("registered") < Position("subscribed")
         /\ Position("subscribed") < Position("hb_started")
    /\ (agent.pc = "failed" /\ agent.err \in {"not_connected", "publish_err"}) =>
         /\ ~agent.subscribed
         /\ agent.hb = "none"
         /\ Position("subscribed") = 0
         /\ Position("heartbeat") = 0

\* C18: a worker whose stop returned has a cancelled scope and has published
\* "deregistered", and no heartbeat of it follows its "deregistered" message.
C18_WorkerStop ==
    /\ agent.pc = "stopped" =>
         /\ agent.cancelled
         /\ 0 < Position("deregistered")
    /\ \A i \in DOMAIN agent.events :
         agent.events[i] = "heartbeat" =>
            (Position("deregistered") = 0 \/ i < Position("deregistered"))

----------------------------------------------------------------------------
(* generateSessionJobs on its own: one call for a cycle and a session, with *)
(* strategies large enough for the action list to be gone through more than *)
(* once.                                                                    *)

SynthStrategies == [MaxUsers : {1}, MaxFiles : 0..MaxGenFiles,
                    MaxWorkspaces : 0..MaxGenWorkspaces]

SynthUsers == {UserName(1), UserName(2)}

otherThanSynth == <<memberVars, disp, jobVars, agent, generator, mu, bg>>

InitSynth ==
    /\ InitBus
    /\ agent = NoAgent
    /\ generator = NoGen
    /\ mu = NoMu
    /\ bg = NoBg
    /\ \E strategy \in SynthStrategies, user \in SynthUsers :
         synth = [pc |-> "call",
                  cycle |-> [NoCycle EXCEPT !.uuid = CycleUUID(1), !.strategy = strategy,
                                            !.status = "running"],
                  session |-> user,
                  jobs |-> <<>>]

\* jobs, err := s.generateSessionJobs(ctx, cycle, session)
callGenerateSessionJobs ==
    /\ synth.pc = "call"
    /\ synth' = [synth EXCEPT !.pc = "returned",
                              !.jobs = generateSessionJobs(synth.cycle, synth.session, 0)]
    /\ UNCHANGED otherThanSynth

NextSynth == callGenerateSessionJobs

SpecSynth == InitSynth /\ [][NextSynth]_vars

OrderedActionSet == <<"create_user", "update_user", "delete_user",
                      "create_workspace", "update_workspace", "delete_workspace",
                      "upload_file", "download_file", "consult_file">>

\* C21: the jobs synthesized for a session number max_files + max_workspaces;
\* the i-th (from 0) is named by element i mod 9 of the ordered action set,
\* and its input blob carries that name as action and the session's user_id.
C21_JobNamesCycle ==
    synth.pc = "returned" =>
        /\ Len(synth.jobs) = synth.cycle.strategy.MaxFiles
                               + synth.cycle.strategy.MaxWorkspaces
        /\ \A i \in 0..(Len(synth.jobs) - 1) :
             /\ synth.jobs[i + 1].name = OrderedActionSet[(i % 9) + 1]
             /\ synth.jobs[i + 1].input_data.action = synth.jobs[i + 1].name
             /\ synth.jobs[i + 1].input_data.user_id = synth.session

\* a call whose jobs go past the ninth action, back to the first
C21_Witness ==
    /\ synth.pc = "returned"
    /\ Len(synth.jobs) > 9
    /\ synth.jobs[10].name = "create_user"

----------------------------------------------------------------------------
(* StartCycle and the Store, the generator's closed stream *)

UsersRead == {sc.users[k] : k \in DOMAIN sc.users}

C23_StoreFailureSurfaced ==
    /\ (sc.pc = "returned" /\ sc.cycle.uuid \notin DOMAIN cycles) => sc.err = "store"
    /\ (sc.pc = "returned" /\ sc.nFailed > 0) => sc.err # "nil"

----------------------------------------------------------------------------
(* Two cycles side by side: the service after StartCycle has returned nil   *)
(* twice, each time for one user and one job, with ProcessJobs, the         *)
(* dispatcher, the workers and the result handlers running from there.      *)

OneJobStrategy == [MaxUsers |-> 1, MaxFiles |-> 0, MaxWorkspaces |-> 1]

StartedCycle(n) == [uuid |-> CycleUUID(n), name |-> "cycle", strategy |-> OneJobStrategy,
                    started_at |-> StartTime, done_at |-> 0, status |-> "running"]

StartedJobs ==
    sessionJobs(StartedCycle(1), <<UserName(1)>>, 0)
      \o sessionJobs(StartedCycle(2), <<UserName(2)>>, 1)

InitTwoCycles ==
    \E R \in SUBSET WorkerIDs :
        /\ workers = [w \in R |-> Worker(RegistrationMessage(w))]
        /\ lastHeartbeat = [w \in R |-> StartTime]
        /\ lastSeen = [w \in WorkerIDs |-> IF w \in R THEN StartTime ELSE 0]
        /\ lastSent = [w \in WorkerIDs |-> IF w \in R THEN "registered" ELSE "none"]
        /\ nSent = Cardinality(R)
        /\ jobCh = [w \in R |-> <<>>]
        /\ regCh = <<>>
        /\ hbCh = <<>>
        /\ derCh = <<>>
        /\ regPc = "idle"
        /\ regMsg = NoMsg
        /\ derPc = "idle"
        /\ derMsg = NoMsg
        /\ sweepPc = "idle"
        /\ sweepTodo = {}
        /\ now = StartTime
        /\ nextSweep = StartTime + SweepInterval
        /\ disp = DispIdle
        /\ cycles = [c \in {CycleUUID(1), CycleUUID(2)} |->
                        IF c = CycleUUID(1) THEN StartedCycle(1) ELSE StartedCycle(2)]
        /\ jobs = CreateJob(CreateJob(EmptyMap, StartedJobs[1]), StartedJobs[2])
        /\ origin = jobs
        /\ published = [j \in DOMAIN jobs |-> NotPublished]
        /\ nUUID = 2
        /\ nCycles = 2
        /\ subs = <<>>
        /\ sc = ScIdle
        /\ pj = PjIdle
        /\ genClosed = FALSE
        /\ nStoreFail = 0
        /\ nTicks = 0
        /\ agent = NoAgent
        /\ InitUnits

NextTwoCycles ==
    \/ processJobsTick
    \/ processJobsDispatch
    \/ dispatchSnapshot
    \/ dispatchSelect
    \/ processJobsUpdate
    \/ processJobsSubscribe
    \/ \E i \in DOMAIN subs : resultUpdateJob(i)
    \/ \E i \in DOMAIN subs : checkCycleCompletionPending(i)
    \/ \E i \in DOMAIN subs : checkCycleCompletionDispatched(i)
    \/ \E w \in WorkerIDs : handleJobs(w)

SpecTwoCycles == InitTwoCycles /\ [][NextTwoCycles]_vars

HandlersQuiet ==
    /\ \A i \in DOMAIN subs : subs[i].pc = "recv" /\ subs[i].ch = <<>>
    /\ \A w \in DOMAIN jobCh : jobCh[w] = <<>>

\* C24: completion is scoped to the cycle. With two cycles running, once
\* every job of cycle a is terminal and its results have been handled, a is
\* completed, although the other cycle still has a pending or dispatched job.
C24_CompletionScoped ==
    \A a, b \in DOMAIN cycles :
      ( /\ a # b
        /\ JobsOf(a) # {}
        /\ \A j \in JobsOf(a) : jobs[j].status \in Terminal
        /\ \E j \in JobsOf(b) : jobs[j].status \in {"pending", "dispatched"}
        /\ HandlersQuiet )
      => cycles[a].status = "completed"

----------------------------------------------------------------------------
(* The generator: its user worker and its workspace worker, each filling    *)
(* its buffered stream, and the readers of the streams.  Probabilities and  *)
(* the draws of rand.Float64() are counted in units of 1/Scale; a draw is   *)
(* below 1.                                                                 *)

Scale == 4

Draws == 0..(Scale - 1)

UserBuffer == 1

WorkspaceBuffer == 1

Langs == {"en", "fr"}

UserCounts == {2, 3}

SeqsUpTo(S, n) == UNION {[1..k -> S] : k \in 0..n}

ProbabilityArrays == SeqsUpTo(0..MaxProbability, MaxArrayLen)

UserStrategies ==
    [UserLang : SeqsUpTo(Langs, MaxArrayLen), LangProbability : ProbabilityArrays]

WorkspaceStrategies ==
    [NumberOfUsers : SeqsUpTo(UserCounts, MaxArrayLen),
     NumberOfUsersProbability : ProbabilityArrays]

\* the strategies of the generator's test, the first probabilities summing below 1
TestUserStrategy == [UserLang |-> <<"en", "fr">>, LangProbability |-> <<2, 1>>]

TestWorkspaceStrategy ==
    [NumberOfUsers |-> <<2, 3>>, NumberOfUsersProbability |-> <<2, 2>>]

DBUser(n) == "id" \o ToString(n)

\* the loop of selectIndexByProbability from place i on, sum being the
\* probabilities before it; the index returned counts from 0
RECURSIVE selectLoop(_, _, _, _)
selectLoop(probabilities, r, i, sum) ==
    IF i > Len(probabilities)
      THEN Len(probabilities) - 1
      ELSE IF r <= sum + probabilities[i]
             THEN i - 1
             ELSE selectLoop(probabilities, r, i + 1, sum + probabilities[i])

\* a selection that falls back to the first index
RECURSIVE selectLoopFallToFirst(_, _, _, _)
selectLoopFallToFirst(probabilities, r, i, sum) ==
    IF i > Len(probabilities)
      THEN 0
      ELSE IF r <= sum + probabilities[i]
             THEN i - 1
             ELSE selectLoopFallToFirst(probabilities, r, i + 1, sum + probabilities[i])

selectIndexFallToFirst(probabilities, r) == selectLoopFallToFirst(probabilities, r, 1, 0)

\* selectIndexByProbability with r the value drawn
selectIndexByProbability(probabilities, r) == selectLoop(probabilities, r, 1, 0)

\* selectWorkspaceIndexByProbability, the same loop
selectWorkspaceIndexByProbability(probabilities, r) == selectLoop(probabilities, r, 1, 0)

\* GenerateUser with r the value drawn
GenerateUser(strategy, r) ==
    IF Len(strategy.UserLang) = 0 \/ Len(strategy.LangProbability) = 0
      THEN [err |-> "empty", Language |-> ""]
      ELSE IF Len(strategy.UserLang) # Len(strategy.LangProbability)
        THEN [err |-> "lengths", Language |-> ""]
        ELSE [err |-> "nil",
              Language |-> strategy.UserLang[
                  selectIndexByProbability(strategy.LangProbability, r) + 1]]

\* max(numbers)
max(numbers) ==
    IF Len(numbers) = 0 THEN 0
    ELSE CHOOSE m \in {numbers[k] : k \in DOMAIN numbers} :
            \A k \in DOMAIN numbers : numbers[k] <= m

\* g.db.Limit(maxUsers).Find(&users), then the UUIDs of the rows
FindUUIDs(db, maxUsers) ==
    [k \in 1..(IF maxUsers < db THEN maxUsers ELSE db) |-> DBUser(k)]

\* a shuffle that may repeat an element
ShufflesWithRepeats(uuids) == [DOMAIN uuids -> {uuids[k] : k \in DOMAIN uuids}]

Shuffles(uuids) ==
    {q \in [DOMAIN uuids -> {uuids[k] : k \in DOMAIN uuids}] :
        \A i, j \in DOMAIN uuids : i # j => q[i] # q[j]}

\* GenerateWorkspace with r the value drawn and shuffled what rand.Shuffle
\* made of the copy of availableUserUUIDs
GenerateWorkspace(wsStrategy, availableUserUUIDs, r, shuffled) ==
    IF Len(wsStrategy.NumberOfUsers) = 0 \/ Len(wsStrategy.NumberOfUsersProbability) = 0
      THEN [err |-> "empty", Users |-> <<>>]
      ELSE IF Len(wsStrategy.NumberOfUsers) # Len(wsStrategy.NumberOfUsersProbability)
        THEN [err |-> "lengths", Users |-> <<>>]
        ELSE IF Len(availableUserUUIDs) = 0
          THEN [err |-> "no_users", Users |-> <<>>]
          ELSE LET numUsersIndex ==
                     selectWorkspaceIndexByProbability(
                         wsStrategy.NumberOfUsersProbability, r)
                   chosen == wsStrategy.NumberOfUsers[numUsersIndex + 1]
                   numUsers == IF chosen > Len(availableUserUUIDs)
                                 THEN Len(availableUserUUIDs) ELSE chosen
               IN [err |-> "nil", Users |-> SubSeq(shuffled, 1, numUsers)]

otherThanGenerator == <<memberVars, disp, jobVars, agent, synth, mu, bg>>

\* the user worker: one user generated and sent; an error is logged and the
\* loop goes round
userWorker ==
    /\ generator.pc = "running"
    /\ Len(generator.userCh) < UserBuffer
    /\ \E r \in Draws :
         LET user == GenerateUser(generator.userStrategy, r) IN
           IF user.err # "nil"
             THEN UNCHANGED generator
             ELSE generator' = [generator EXCEPT
                      !.userCh = Append(@, [Language |-> user.Language])]
    /\ UNCHANGED otherThanGenerator

\* the workspace worker: the users of the database are fetched, a workspace
\* is generated from them and sent; no users, or an error, and the loop goes
\* round
workspaceWorker ==
    /\ generator.pc = "running"
    /\ Len(generator.workspaceCh) < WorkspaceBuffer
    /\ LET uuids == FindUUIDs(generator.db,
                              max(generator.workspaceStrategy.NumberOfUsers)) IN
         IF Len(uuids) = 0
           THEN UNCHANGED generator
           ELSE \E r \in Draws, shuffled \in Shuffles(uuids) :
                  LET workspace == GenerateWorkspace(generator.workspaceStrategy,
                                                     uuids, r, shuffled) IN
                    IF workspace.err # "nil"
                      THEN UNCHANGED generator
                      ELSE generator' = [generator EXCEPT
                               !.workspaceCh = Append(@, [Users |-> workspace.Users])]
    /\ UNCHANGED otherThanGenerator

\* a reader of Users() takes a user
readUser ==
    /\ generator.pc = "running"
    /\ generator.userCh # <<>>
    /\ generator' = [generator EXCEPT !.userCh = Tail(@)]
    /\ UNCHANGED otherThanGenerator

\* a reader of Workspaces() takes a workspace
readWorkspace ==
    /\ generator.pc = "running"
    /\ generator.workspaceCh # <<>>
    /\ generator' = [generator EXCEPT !.workspaceCh = Tail(@)]
    /\ UNCHANGED otherThanGenerator

InitGenerator ==
    /\ InitBus
    /\ agent = NoAgent
    /\ synth = NoSynth
    /\ mu = NoMu
    /\ bg = NoBg
    /\ \E us \in UserStrategies, ws \in WorkspaceStrategies, db \in 0..MaxDBUsers :
         /\ us = TestUserStrategy \/ ws = TestWorkspaceStrategy
         /\ generator = [pc |-> "running", userStrategy |-> us,
                         workspaceStrategy |-> ws, db |-> db,
                         userCh |-> <<>>, workspaceCh |-> <<>>]

NextGenerator ==
    \/ userWorker
    \/ workspaceWorker
    \/ readUser
    \/ readWorkspace

SpecGenerator == InitGenerator /\ [][NextGenerator]_vars

RECURSIVE SumOf(_)
SumOf(probabilities) ==
    IF probabilities = <<>> THEN 0 ELSE Head(probabilities) + SumOf(Tail(probabilities))

ConfiguredLangs ==
    {generator.userStrategy.UserLang[k] : k \in DOMAIN generator.userStrategy.UserLang}

ConfiguredCounts ==
    {generator.workspaceStrategy.NumberOfUsers[k] :
        k \in DOMAIN generator.workspaceStrategy.NumberOfUsers}

\* C27 as stated: every workspace on the workspace stream has as many users
\* as one of the configured number_of_users values, all distinct and all of
\* them users of the database.
C27_WorkspaceUsersOriginal ==
    \A n \in DOMAIN generator.workspaceCh :
        LET users == generator.workspaceCh[n].Users IN
          /\ Len(users) \in ConfiguredCounts
          /\ \A i, j \in DOMAIN users : i # j => users[i] # users[j]
          /\ \A i \in DOMAIN users : users[i] \in {DBUser(k) : k \in 1..generator.db}

\* C27: every workspace on the workspace stream has as many users as one of
\* the configured number_of_users values, or as the database has when that
\* is fewer; they are all distinct and all of them users of the database.
C27_WorkspaceUsers ==
    \A n \in DOMAIN generator.workspaceCh :
        LET users == generator.workspaceCh[n].Users IN
          /\ \E c \in ConfiguredCounts :
                Len(users) = IF c > generator.db THEN generator.db ELSE c
          /\ \A i, j \in DOMAIN users : i # j => users[i] # users[j]
          /\ \A i \in DOMAIN users : users[i] \in {DBUser(k) : k \in 1..generator.db}

\* a workspace of the two users of a database, where three were selected
C27_Witness ==
    /\ generator.db = 2
    /\ generator.workspaceStrategy.NumberOfUsers = <<3>>
    /\ generator.workspaceCh # <<>>
    /\ Len(generator.workspaceCh[1].Users) = 2

\* C28: every user on the user stream has one of the configured languages;
\* for arrays of the same length the index selected is within the array for
\* every draw, and a draw above the sum of the probabilities selects the
\* last index.
C28_UserLanguage ==
    /\ \A n \in DOMAIN generator.userCh :
          generator.userCh[n].Language \in ConfiguredLangs
    /\ LET probabilities == generator.userStrategy.LangProbability IN
         (Len(probabilities) > 0
            /\ Len(probabilities) = Len(generator.userStrategy.UserLang)) =>
           \A r \in Draws :
              /\ selectIndexByProbability(probabilities, r) \in 0..(Len(probabilities) - 1)
              /\ r > SumOf(probabilities) =>
                   selectIndexByProbability(probabilities, r) = Len(probabilities) - 1

\* probabilities 1/4 and 0: only a draw above their sum gives the second
\* language, and a user with it is on the stream
C28_Witness ==
    /\ generator.userStrategy = [UserLang |-> <<"en", "fr">>, LangProbability |-> <<1, 0>>]
    /\ generator.userCh # <<>>
    /\ generator.userCh[1].Language = "fr"

----------------------------------------------------------------------------
(* The sweeper's threshold, under Spec *)

\* C29: a sweep goes through every entry of the heartbeat map; it removes an
\* id from both maps when its last heartbeat is more than 15 s old at the
\* time of the sweep and otherwise leaves both maps alone, so that when the
\* sweep ends no entry is older than 15 s; and the sweeper removes a worker
\* from the registry only if nothing was processed for it for more than 15 s.
C29_SweeperThreshold ==
    [][/\ (sweepPc = "idle" /\ sweepPc' = "run") => sweepTodo' = DOMAIN lastHeartbeat
       /\ \A w \in WorkerIDs :
            (sweepPc = "run" /\ w \in sweepTodo /\ w \notin sweepTodo') =>
               IF now - lastHeartbeat[w] > 15
                 THEN /\ w \notin DOMAIN workers'
                      /\ w \notin DOMAIN lastHeartbeat'
                      /\ \A v \in WorkerIDs \ {w} :
                           /\ v \in DOMAIN workers <=> v \in DOMAIN workers'
                           /\ v \in DOMAIN lastHeartbeat <=> v \in DOMAIN lastHeartbeat'
                 ELSE /\ workers' = workers
                      /\ lastHeartbeat' = lastHeartbeat
       /\ (sweepPc = "run" /\ sweepPc' = "idle") =>
            \A w \in DOMAIN lastHeartbeat : now - lastHeartbeat[w] <= 15
       /\ \A w \in WorkerIDs :
            (sweepPc = "run" /\ sweepTodo' # sweepTodo
               /\ w \in DOMAIN workers /\ w \notin DOMAIN workers') =>
               now - lastSeen[w] > 15]_vars

\* a sweep is over that found one worker exactly 15 s after its last
\* heartbeat and kept it, and another worker later than that and removed it
C29_Witness ==
    \E w, v \in WorkerIDs :
        /\ sweepPc = "run"
        /\ sweepTodo = {}
        /\ w \in DOMAIN workers
        /\ w \in DOMAIN lastHeartbeat
        /\ now - lastHeartbeat[w] = 15
        /\ lastSent[v] = "registered"
        /\ lastSeen[v] # 0
        /\ regPc = "idle"
        /\ v \notin DOMAIN workers
        /\ v \notin DOMAIN lastHeartbeat

----------------------------------------------------------------------------
(* The dispatcher's two mutexes.  Each task is the list of its lock and     *)
(* unlock calls in the order of its code, gone through again and again;     *)
(* mu.held[t] lists the locks task t holds, in the order it acquired them.  *)

Callers == {"caller1", "caller2"}

Tasks == {"handleRegistrations", "handleHeartbeats", "handleDeregistrations",
          "cleanupInactiveWorkers"} \cup Callers

Do(op, l) == [op |-> op, l |-> l]

\* a registration handler that keeps workerMu while it takes heartbeatMu
handleRegistrationsNested ==
    <<Do("recv", ""), Do("lock", "workerMu"), Do("lock", "heartbeatMu"),
      Do("unlock", "heartbeatMu"), Do("unlock", "workerMu")>>

handleRegistrationsLocks ==
    <<Do("recv", ""), Do("lock", "workerMu"), Do("unlock", "workerMu"),
      Do("lock", "heartbeatMu"), Do("unlock", "heartbeatMu")>>

handleHeartbeatsLocks ==
    <<Do("recv", ""), Do("lock", "heartbeatMu"), Do("unlock", "heartbeatMu")>>

handleDeregistrationsLocks ==
    <<Do("recv", ""), Do("lock", "workerMu"), Do("unlock", "workerMu"),
      Do("lock", "heartbeatMu"), Do("unlock", "heartbeatMu")>>

\* the ticker fires; heartbeatMu; for each entry, if it is stale: workerMu,
\* delete, unlock; after the last entry heartbeatMu is released
cleanupInactiveWorkersLocks ==
    <<Do("recv", ""), Do("lock", "heartbeatMu"), Do("range", ""),
      Do("lock", "workerMu"), Do("unlock", "workerMu"), Do("next", ""),
      Do("unlock", "heartbeatMu")>>

GetActiveWorkersLocks ==
    <<Do("recv", ""), Do("rlock", "workerMu"), Do("runlock", "workerMu")>>

Program(t) ==
    CASE t = "handleRegistrations" -> handleRegistrationsLocks
      [] t = "handleHeartbeats" -> handleHeartbeatsLocks
      [] t = "handleDeregistrations" -> handleDeregistrationsLocks
      [] t = "cleanupInactiveWorkers" -> cleanupInactiveWorkersLocks
      [] OTHER -> GetActiveWorkersLocks

At(t) == Program(t)[mu.pc[t]]

After(t) == IF mu.pc[t] = Len(Program(t)) THEN 1 ELSE mu.pc[t] + 1

Has(t, l) == \E k \in DOMAIN mu.held[t] : mu.held[t][k] = l

Holders(l) == {t \in Tasks : Has(t, l)}

\* sync.RWMutex: Lock waits for the writer and the readers; RLock waits for
\* the writer and for a Lock that is waiting
WritersWaiting(l) == {t \in Tasks : At(t) = Do("lock", l)}

CanLock(t, l) == Holders(l) = {} /\ Holders(l \o ".R") = {}

CanRLock(t, l) == Holders(l) = {} /\ WritersWaiting(l) = {}

Without(held, l) == SelectSeq(held, LAMBDA x : x # l)

otherThanMu == <<memberVars, disp, jobVars, agent, generator, synth, bg>>

\* a message arrives, the ticker fires, GetActiveWorkers is called
muReceive(t) ==
    /\ At(t).op = "recv"
    /\ mu' = [mu EXCEPT !.pc[t] = After(t),
                        !.left = IF t = "cleanupInactiveWorkers" THEN MaxEntries ELSE @]
    /\ UNCHANGED otherThanMu

muLock(t) ==
    /\ At(t).op = "lock"
    /\ CanLock(t, At(t).l)
    /\ mu' = [mu EXCEPT !.pc[t] = After(t), !.held[t] = Append(@, At(t).l)]
    /\ UNCHANGED otherThanMu

muRLock(t) ==
    /\ At(t).op = "rlock"
    /\ CanRLock(t, At(t).l)
    /\ mu' = [mu EXCEPT !.pc[t] = After(t), !.held[t] = Append(@, At(t).l \o ".R")]
    /\ UNCHANGED otherThanMu

muUnlock(t) ==
    /\ At(t).op = "unlock"
    /\ mu' = [mu EXCEPT !.pc[t] = After(t), !.held[t] = Without(@, At(t).l)]
    /\ UNCHANGED otherThanMu

muRUnlock(t) ==
    /\ At(t).op = "runlock"
    /\ mu' = [mu EXCEPT !.pc[t] = After(t), !.held[t] = Without(@, At(t).l \o ".R")]
    /\ UNCHANGED otherThanMu

\* the range loop: no entry left, or the next entry is fresh, or it is stale
muRange(t) ==
    /\ At(t).op = "range"
    /\ \/ /\ mu.left = 0
          /\ mu' = [mu EXCEPT !.pc[t] = Len(Program(t))]
       \/ /\ mu.left > 0
          /\ mu' = [mu EXCEPT !.left = @ - 1]
       \/ /\ mu.left > 0
          /\ mu' = [mu EXCEPT !.left = @ - 1, !.pc[t] = After(t)]
    /\ UNCHANGED otherThanMu

\* the end of the loop body
muNext(t) ==
    /\ At(t).op = "next"
    /\ mu' = [mu EXCEPT !.pc[t] = 3]
    /\ UNCHANGED otherThanMu

InitMu ==
    /\ InitBus
    /\ agent = NoAgent
    /\ generator = NoGen
    /\ synth = NoSynth
    /\ bg = NoBg
    /\ mu = [pc |-> [t \in Tasks |-> 1], held |-> [t \in Tasks |-> <<>>], left |-> 0]

NextMu ==
    \/ \E t \in Tasks : muReceive(t)
    \/ \E t \in Tasks : muLock(t)
    \/ \E t \in Tasks : muRLock(t)
    \/ \E t \in Tasks : muUnlock(t)
    \/ \E t \in Tasks : muRUnlock(t)
    \/ \E t \in Tasks : muRange(t)
    \/ \E t \in Tasks : muNext(t)

SpecMu == InitMu /\ [][NextMu]_vars

\* the tasks that task t is waiting for
WaitsFor(t) ==
    IF At(t).op = "lock" /\ ~CanLock(t, At(t).l)
      THEN Holders(At(t).l) \cup Holders(At(t).l \o ".R")
      ELSE IF At(t).op = "rlock" /\ ~CanRLock(t, At(t).l)
        THEN Holders(At(t).l) \cup WritersWaiting(At(t).l)
        ELSE {}

RECURSIVE WaitsForWithin(_, _)
WaitsForWithin(t, n) ==
    IF n = 0 THEN {}
    ELSE WaitsFor(t) \cup UNION {WaitsForWithin(u, n - 1) : u \in WaitsFor(t)}

HoldsWorkers(t) == Has(t, "workerMu") \/ Has(t, "workerMu.R")

\* C30: a task that holds the heartbeat lock and the workers lock took the
\* heartbeat lock first; no task is at a Lock of the heartbeat lock while it
\* holds the workers lock; and no task waits, through the tasks it waits
\* for, for itself.
C30_LockOrdering ==
    /\ \A t \in Tasks :
         (Has(t, "heartbeatMu") /\ HoldsWorkers(t)) => mu.held[t][1] = "heartbeatMu"
    /\ \A t \in Tasks :
         At(t) = Do("lock", "heartbeatMu") => ~HoldsWorkers(t)
    /\ \A t \in Tasks : t \notin WaitsForWithin(t, Cardinality(Tasks))

\* the sweeper holds both locks, the registration handler waits for the
\* heartbeat lock and a caller of GetActiveWorkers for the workers lock
C30_Witness ==
    /\ mu.held["cleanupInactiveWorkers"] = <<"heartbeatMu", "workerMu">>
    /\ At("handleRegistrations") = Do("lock", "heartbeatMu")
    /\ \E c \in Callers : At(c).op = "rlock"

----------------------------------------------------------------------------
(* Scopes and background tasks.  One component runs: the Dispatcher with    *)
(* its three consumers and its sweeper, or the JobService with ProcessJobs, *)
(* the result handlers it spawns and a StartCycle called on it, or a worker *)
(* (the agent above).  A subscription made by Subscribe is a channel, a     *)
(* goroutine that waits for ctx.Done() to unsubscribe and close it, and a   *)
(* consumer ranging over it.                                                *)

Runs == {"Dispatcher", "JobService", "Worker"}

Scopes == {"Dispatcher", "JobService", "Caller"}

MembershipSubjects == {"dispatcher.worker.register", "dispatcher.worker.heartbeat",
                       "dispatcher.worker.deregister"}

ResultSub(n) == "dispatcher.job.result#" \o ToString(n)

ResultSubs == {ResultSub(n) : n \in 1..MaxPJTicks}

SubNames == MembershipSubjects \cup ResultSubs

ScopeOf(s) == IF s \in MembershipSubjects THEN "Dispatcher" ELSE "JobService"

Tickers == {"cleanupInactiveWorkers", "ProcessJobs"}

NoSub == [state |-> "none", n |-> 0, consumer |-> "none", unsub |-> "none"]

\* Subscribe: ChanSubscribe, the unsubscribing goroutine; then `go` consumer
Subscribed == [state |-> "open", n |-> 0, consumer |-> "recv", unsub |-> "wait"]

otherThanBg == <<memberVars, disp, jobVars, agent, generator, synth, mu>>

\* a message for an open subscription is put into its channel
bgPublish(s) ==
    /\ bg.pc = "run"
    /\ bg.subs[s].state = "open"
    /\ bg.subs[s].n < MaxBuffered
    /\ bg' = [bg EXCEPT !.subs[s].n = @ + 1]
    /\ UNCHANGED otherThanBg

\* for msg := range ch, a message is there
consumerReceive(s) ==
    /\ bg.pc = "run"
    /\ bg.subs[s].consumer = "recv"
    /\ bg.subs[s].n > 0
    /\ bg' = [bg EXCEPT !.subs[s].n = @ - 1, !.subs[s].consumer = "handle"]
    /\ UNCHANGED otherThanBg

\* the loop body is over
consumerHandle(s) ==
    /\ bg.pc = "run"
    /\ bg.subs[s].consumer = "handle"
    /\ bg' = [bg EXCEPT !.subs[s].consumer = "recv"]
    /\ UNCHANGED otherThanBg

\* for msg := range ch, the channel is closed and empty
consumerExit(s) ==
    /\ bg.pc = "run"
    /\ bg.subs[s].consumer = "recv"
    /\ bg.subs[s].n = 0
    /\ bg.subs[s].state = "closed"
    /\ bg' = [bg EXCEPT !.subs[s].consumer = "exited"]
    /\ UNCHANGED otherThanBg

\* an unsubscribing goroutine that leaves the channel open
unsubscribeWithoutClose(s) ==
    /\ bg.pc = "run"
    /\ bg.subs[s].unsub = "wait"
    /\ bg.cancelled[ScopeOf(s)]
    /\ bg' = [bg EXCEPT !.subs[s].unsub = "done"]
    /\ UNCHANGED otherThanBg

\* <-ctx.Done(); sub.Unsubscribe(); close(msgCh)
unsubscribe(s) ==
    /\ bg.pc = "run"
    /\ bg.subs[s].unsub = "wait"
    /\ bg.cancelled[ScopeOf(s)]
    /\ bg' = [bg EXCEPT !.subs[s].unsub = "done", !.subs[s].state = "closed"]
    /\ UNCHANGED otherThanBg

\* select: case <-ticker.C
tickerTick(t) ==
    /\ bg.pc = "run"
    /\ bg.ticker[t] = "select"
    /\ t = "ProcessJobs" => bg.nTicks < MaxPJTicks
    /\ bg' = [bg EXCEPT !.ticker[t] = "body",
                        !.nTicks = IF t = "ProcessJobs" THEN @ + 1 ELSE @]
    /\ UNCHANGED otherThanBg

\* the body of the ticker's case; that of ProcessJobs ends with a new
\* subscription to dispatcher.job.result and a new handler, unless the
\* store or the subscription failed (continue)
tickerBody(t) ==
    /\ bg.pc = "run"
    /\ bg.ticker[t] = "body"
    /\ \E ok \in BOOLEAN :
         bg' = [bg EXCEPT !.ticker[t] = "select",
                          !.subs = IF t = "ProcessJobs" /\ ok
                                     THEN [@ EXCEPT ![ResultSub(bg.nTicks)] = Subscribed]
                                     ELSE @]
    /\ UNCHANGED otherThanBg

\* select: case <-ctx.Done(): return
tickerDone(t) ==
    /\ bg.pc = "run"
    /\ bg.ticker[t] = "select"
    /\ bg.cancelled[IF t = "ProcessJobs" THEN "JobService" ELSE "Dispatcher"]
    /\ bg' = [bg EXCEPT !.ticker[t] = "exited"]
    /\ UNCHANGED otherThanBg

\* the OnStop hook of the Dispatcher or of the JobService: cancel(), return nil
bgOnStop ==
    /\ bg.pc = "run"
    /\ bg.run \in {"Dispatcher", "JobService"}
    /\ ~bg.stopped
    /\ bg' = [bg EXCEPT !.cancelled[bg.run] = TRUE, !.stopped = TRUE]
    /\ UNCHANGED otherThanBg

\* StartCycle is called with the caller's context
bgStartCycle ==
    /\ bg.pc = "run"
    /\ bg.run = "JobService"
    /\ bg.sc = "idle"
    /\ bg' = [bg EXCEPT !.sc = "select", !.i = 0]
    /\ UNCHANGED otherThanBg

\* the caller cancels its context
bgCallerCancel ==
    /\ bg.pc = "run"
    /\ bg.run = "JobService"
    /\ ~bg.cancelled["Caller"]
    /\ bg' = [bg EXCEPT !.cancelled["Caller"] = TRUE]
    /\ UNCHANGED otherThanBg

\* select: case user, ok := <-userCh
bgStartCycleRead ==
    /\ bg.pc = "run"
    /\ bg.sc = "select"
    /\ bg.stream = "flowing"
    /\ bg' = [bg EXCEPT !.i = @ + 1,
                        !.sc = IF bg.i + 1 >= MaxJobs THEN "returned" ELSE "select",
                        !.err = IF bg.i + 1 >= MaxJobs THEN "nil" ELSE @]
    /\ UNCHANGED otherThanBg

\* select: case <-ctx.Done(): return ctx.Err()
bgStartCycleDone ==
    /\ bg.pc = "run"
    /\ bg.sc = "select"
    /\ bg.cancelled["Caller"]
    /\ bg' = [bg EXCEPT !.sc = "returned", !.err = "context canceled"]
    /\ UNCHANGED otherThanBg

InitCancel ==
    /\ InitBus
    /\ generator = NoGen
    /\ synth = NoSynth
    /\ mu = NoMu
    /\ \E run \in Runs, stream \in {"empty", "flowing"} :
         /\ bg = [pc |-> "run", run |-> run,
                  cancelled |-> [c \in Scopes |-> FALSE],
                  stopped |-> FALSE,
                  subs |-> [s \in SubNames |->
                              IF run = "Dispatcher" /\ s \in MembershipSubjects
                                THEN Subscribed ELSE NoSub],
                  ticker |-> [t \in Tickers |->
                                IF (run = "Dispatcher" /\ t = "cleanupInactiveWorkers")
                                     \/ (run = "JobService" /\ t = "ProcessJobs")
                                  THEN "select" ELSE "none"],
                  nTicks |-> 0,
                  sc |-> "idle", i |-> 0, err |-> "", stream |-> stream]
         /\ IF run = "Worker"
              THEN \E i \in Impls, c \in BOOLEAN :
                     agent = [NoAgent EXCEPT !.impl = i, !.connected = c]
              ELSE agent = NoAgent

NextCancel ==
    \/ \E s \in SubNames : bgPublish(s)
    \/ \E s \in SubNames : consumerReceive(s)
    \/ \E s \in SubNames : consumerHandle(s)
    \/ \E s \in SubNames : consumerExit(s)
    \/ \E s \in SubNames : unsubscribe(s)
    \/ \E t \in Tickers : tickerTick(t)
    \/ \E t \in Tickers : tickerBody(t)
    \/ \E t \in Tickers : tickerDone(t)
    \/ bgOnStop
    \/ bgStartCycle
    \/ bgCallerCancel
    \/ bgStartCycleRead
    \/ bgStartCycleDone
    \/ NextWorker

\* every goroutine that can take a step takes one in the end; a select takes
\* in the end a case that is ready again and again
FairCancel ==
    /\ \A s \in SubNames :
         /\ WF_vars(consumerReceive(s))
         /\ WF_vars(consumerHandle(s))
         /\ WF_vars(consumerExit(s))
         /\ WF_vars(unsubscribe(s))
    /\ \A t \in Tickers : WF_vars(tickerBody(t)) /\ SF_vars(tickerDone(t))
    /\ SF_vars(bgStartCycleDone)
    /\ WF_vars(heartbeatPublish)
    /\ SF_vars(heartbeatDone)
    /\ WF_vars(workerImplUnsubscribe)

SpecCancel == InitCancel /\ [][NextCancel]_vars /\ FairCancel

SubsOf(scope) == {s \in SubNames : ScopeOf(s) = scope /\ bg.subs[s].state # "none"}

SubsExited(scope) ==
    \A s \in SubsOf(scope) : bg.subs[s].consumer = "exited" /\ bg.subs[s].unsub = "done"

DispatcherExited ==
    /\ SubsExited("Dispatcher")
    /\ bg.ticker["cleanupInactiveWorkers"] = "exited"

JobServiceExited ==
    /\ SubsExited("JobService")
    /\ bg.ticker["ProcessJobs"] = "exited"

WorkerExited ==
    /\ agent.hb = "done"
    /\ ~agent.subscribed

C26_StopDrains ==
    /\ (bg.pc = "run" /\ bg.run = "Dispatcher" /\ bg.stopped) => DispatcherExited
    /\ (bg.pc = "run" /\ bg.run = "JobService" /\ bg.stopped) => JobServiceExited
    /\ agent.pc = "stopped" => WorkerExited

----------------------------------------------------------------------------
(* The two maps of the dispatcher *)

\* C35: whenever no membership message is queued or half handled and no
\* sweep is running, d.workers and d.lastHeartbeat have the same keys.
C35_SameKeySet == Quiescent => DOMAIN workers = DOMAIN lastHeartbeat

\* C36: a job is published by the dispatch loop only when a subscription to
\* dispatcher.job.result exists, so that no result is published to nobody.
C36_SubscribedBeforeDispatch ==
    [][(pj.pc = "indispatch" /\ disp.pc = "select" /\ disp'.pubs # <<>>)
          => Len(subs) >= 1]_vars

----------------------------------------------------------------------------
(* Dispatched jobs *)

\* the dispatch loop publishes job j in this step
Publishes(j) == pj.pc = "indispatch" /\ disp.pc = "select" /\ disp'.pubs # <<>> /\ disp.job.uuid = j

\* a result handler takes a result of job j in this step
TakesResult(j) ==
    \E i \in DOMAIN subs :
        /\ subs[i].pc = "recv"
        /\ subs[i].ch # <<>>
        /\ Head(subs[i].ch).uuid = j
        /\ subs'[i].ch = Tail(subs[i].ch)

\* a message of job j is on its way: to a worker, or as a result to a handler
InFlight(j) ==
    \/ \E w \in DOMAIN jobCh : \E k \in DOMAIN jobCh[w] : jobCh[w][k].uuid = j
    \/ \E i \in DOMAIN subs : \E k \in DOMAIN subs[i].ch : subs[i].ch[k].uuid = j
    \/ \E i \in DOMAIN subs : subs[i].job.uuid = j

\* C31: a job whose row has status dispatched is not published again by the
\* dispatch loop, and its row keeps status dispatched in every step but that
\* of a result handler taking a result of the job, however much time passes.
C31_DispatchedStays ==
    [][\A j \in DOMAIN jobs :
         jobs[j].status = "dispatched"
           => /\ ~Publishes(j)
              /\ j \in DOMAIN jobs'
              /\ jobs'[j].status = "dispatched" \/ TakesResult(j)]_vars

\* the second tick has loaded another job and has passed over a dispatched
\* job of which no message is on its way
C31_Witness ==
    /\ nTicks = 2
    /\ pj.pc = "dispatch"
    /\ pj.todo # <<>>
    /\ \E j \in DOMAIN jobs :
         /\ jobs[j].status = "dispatched"
         /\ ~InFlight(j)
         /\ \A k \in DOMAIN pj.todo : pj.todo[k].uuid # j

\* C39: a job is published more than once by the dispatch loop only if a
\* Store write of status dispatched failed after a publish of it; while no
\* Store call has failed, every job has been published at most once, over
\* any number of ticks.
C39_PublishedOnce ==
    \A j \in DOMAIN published :
        /\ published[j].n > 1 => published[j].unsaved
        /\ nStoreFail = 0 => published[j].n <= 1

\* the second tick has published again a job whose write of dispatched
\* failed in the first tick
C39_Witness ==
    /\ nTicks = 2
    /\ \E j \in DOMAIN published : published[j].n = 2 /\ published[j].unsaved

----------------------------------------------------------------------------
(* A cycle whose workers leave: the service after StartCycle has returned   *)
(* nil for one user and one job, with both workers registered and           *)
(* subscribed.  A worker may end (its subscription goes), a deregistration  *)
(* may be published for it and handled, and the sweeper may run.            *)

\* the worker's scope is done: sub.Unsubscribe(); close(msgCh)
workerLeaves(w) ==
    /\ w \in DOMAIN jobCh
    /\ jobCh' = MapDelete(jobCh, w)
    /\ UNCHANGED <<memberVars, disp, jobs, cycles, subs, sc, pj, genClosed, nUUID, origin, published,
                   nCycles, nStoreFail, nTicks>>
    /\ UNCHANGED <<agent, unitVars>>

InitEvict ==
    /\ workers = [w \in WorkerIDs |-> Worker(RegistrationMessage(w))]
    /\ lastHeartbeat = [w \in WorkerIDs |-> StartTime]
    /\ lastSeen = [w \in WorkerIDs |-> StartTime]
    /\ lastSent = [w \in WorkerIDs |-> "registered"]
    /\ nSent = Cardinality(WorkerIDs)
    /\ jobCh = [w \in WorkerIDs |-> <<>>]
    /\ regCh = <<>>
    /\ hbCh = <<>>
    /\ derCh = <<>>
    /\ regPc = "idle"
    /\ regMsg = NoMsg
    /\ derPc = "idle"
    /\ derMsg = NoMsg
    /\ sweepPc = "idle"
    /\ sweepTodo = {}
    /\ now = StartTime
    /\ nextSweep = StartTime + SweepInterval
    /\ disp = DispIdle
    /\ cycles = [c \in {CycleUUID(1)} |-> StartedCycle(1)]
    /\ jobs = CreateJob(EmptyMap, StartedJobs[1])
    /\ origin = jobs
    /\ published = [j \in DOMAIN jobs |-> NotPublished]
    /\ nUUID = 1
    /\ nCycles = 1
    /\ subs = <<>>
    /\ sc = ScIdle
    /\ pj = PjIdle
    /\ genClosed = FALSE
    /\ nStoreFail = 0
    /\ nTicks = 0
    /\ agent = NoAgent
    /\ InitUnits

NextEvict ==
    \/ \E w \in WorkerIDs : workerLeaves(w)
    \/ \E w \in WorkerIDs : Deregister(w)
    \/ handleDeregistrationsWorkers
    \/ handleDeregistrationsHeartbeat
    \/ cleanupBegin
    \/ \E w \in WorkerIDs : cleanupVisit(w)
    \/ cleanupEnd
    \/ processJobsTick
    \/ processJobsDispatch
    \/ dispatchSnapshot
    \/ dispatchSelect
    \/ processJobsUpdate
    \/ processJobsSubscribe
    \/ \E i \in DOMAIN subs : resultUpdateJob(i)
    \/ \E i \in DOMAIN subs : checkCycleCompletionPending(i)
    \/ \E i \in DOMAIN subs : checkCycleCompletionDispatched(i)
    \/ \E w \in WorkerIDs : handleJobs(w)

\* the ticker fires every 10 s and every goroutine that can take a step
\* takes one in the end
FairEvict ==
    /\ WF_vars(processJobsTick)
    /\ WF_vars(processJobsDispatch)
    /\ WF_vars(dispatchSnapshot)
    /\ WF_vars(dispatchSelect)
    /\ WF_vars(processJobsUpdate)
    /\ WF_vars(processJobsSubscribe)
    /\ WF_vars(\E i \in DOMAIN subs : resultUpdateJob(i))
    /\ WF_vars(\E i \in DOMAIN subs : checkCycleCompletionPending(i))
    /\ WF_vars(\E i \in DOMAIN subs : checkCycleCompletionDispatched(i))
    /\ WF_vars(\E w \in WorkerIDs : handleJobs(w))

SpecEvict == InitEvict /\ [][NextEvict]_vars /\ FairEvict

\* workers that are in the registry and subscribed to their job subject
LiveWorkers == DOMAIN workers \cap DOMAIN jobCh

\* job j was published to a worker that is gone, no message of it is on its
\* way, its cycle is running, a live worker exists and a tick is still to come
LostToEvicted(j) ==
    /\ j \in DOMAIN jobs
    /\ jobs[j].status = "dispatched"
    /\ jobs[j].worker_id \notin DOMAIN jobCh
    /\ jobs[j].worker_id \notin DOMAIN workers
    /\ ~InFlight(j)
    /\ disp.job.uuid # j
    /\ jobs[j].cycle_uuid \in DOMAIN cycles
    /\ cycles[jobs[j].cycle_uuid].status = "running"
    /\ LiveWorkers # {}
    /\ nTicks < MaxPJTicks

----------------------------------------------------------------------------
(* The result handler *)

\* handler i saves a result in this step
SavesResult(i) == subs[i].pc = "recv" /\ subs'[i].pc = "pending"

\* handler i ends its completion check in this step
EndsCheck(i) == subs[i].pc = "dispatched" /\ subs'[i].pc = "recv"

NoCycleCompleted == \A c \in DOMAIN cycles : cycles[c].status # "completed"

----------------------------------------------------------------------------
(* The worker's job consumer over what its channel holds: the jobs of two   *)
(* started cycles as DispatchJob publishes them, and bytes that are no job, *)
(* with none, one or two subscriptions to dispatcher.job.result.            *)

JobMessages(w) ==
    {[StartedJobs[k] EXCEPT !.worker_id = w] : k \in DOMAIN StartedJobs} \cup {Undecodable}

\* what the channel of w1 holds: bytes that are no job, then a job
BadThenGood == <<Undecodable, [StartedJobs[1] EXCEPT !.worker_id = "w1"]>>

InitConsumer ==
    /\ workers = [w \in WorkerIDs |-> Worker(RegistrationMessage(w))]
    /\ lastHeartbeat = [w \in WorkerIDs |-> StartTime]
    /\ lastSeen = [w \in WorkerIDs |-> StartTime]
    /\ lastSent = [w \in WorkerIDs |-> "registered"]
    /\ nSent = Cardinality(WorkerIDs)
    /\ \E q \in SeqsUpTo(JobMessages("w2"), MaxQueued) :
         jobCh = [w \in WorkerIDs |-> IF w = "w1" THEN BadThenGood ELSE q]
    /\ regCh = <<>>
    /\ hbCh = <<>>
    /\ derCh = <<>>
    /\ regPc = "idle"
    /\ regMsg = NoMsg
    /\ derPc = "idle"
    /\ derMsg = NoMsg
    /\ sweepPc = "idle"
    /\ sweepTodo = {}
    /\ now = StartTime
    /\ nextSweep = StartTime + SweepInterval
    /\ disp = DispIdle
    /\ cycles = [c \in {CycleUUID(1), CycleUUID(2)} |->
                    IF c = CycleUUID(1) THEN StartedCycle(1) ELSE StartedCycle(2)]
    /\ jobs = CreateJob(CreateJob(EmptyMap, StartedJobs[1]), StartedJobs[2])
    /\ origin = jobs
    /\ published = [j \in DOMAIN jobs |-> NotPublished]
    /\ nUUID = 2
    /\ nCycles = 2
    /\ subs \in {<<>>, <<NewSub>>, <<NewSub, NewSub>>}
    /\ sc = ScIdle
    /\ pj = PjIdle
    /\ genClosed = FALSE
    /\ nStoreFail = 0
    /\ nTicks = Len(subs)
    /\ agent = NoAgent
    /\ InitUnits

NextConsumer == \E w \in WorkerIDs : handleJobs(w)

SpecConsumer == InitConsumer /\ [][NextConsumer]_vars

\* the consumer of every subscribed worker takes the next message as soon
\* as there is one
ConsumerReady == \A w \in DOMAIN jobCh : jobCh[w] # <<>> => ENABLED handleJobs(w)

\* C34: whenever a worker's job channel changes, its first message is gone
\* from it and nothing is put back; for bytes that do not decode no result
\* is published; for a job either the publish failed and no subscription
\* receives anything, or every subscription receives one result, that of
\* this job; and the consumer is ready for the next message.
C34_WorkerFailureSemantics ==
    /\ []ConsumerReady
    /\ [][\A w \in DOMAIN jobCh :
            jobCh'[w] # jobCh[w]
              => /\ jobCh'[w] = Tail(jobCh[w])
                 /\ Head(jobCh[w]) = Undecodable => subs' = subs
                 /\ Head(jobCh[w]) # Undecodable
                      => \/ subs' = subs
                         \/ \A i \in DOMAIN subs :
                              /\ Len(subs'[i].ch) = Len(subs[i].ch) + 1
                              /\ SubSeq(subs'[i].ch, 1, Len(subs[i].ch)) = subs[i].ch
                              /\ subs'[i].ch[Len(subs'[i].ch)].uuid = Head(jobCh[w]).uuid]_vars

\* the consumer of w1 has dropped the bytes that do not decode and has then
\* failed to publish the result of the job: no result is out, its channel is
\* empty, and w2 has not taken anything yet
C34_Witness ==
    /\ Len(subs) = 1
    /\ subs[1].ch = <<>>
    /\ jobCh["w1"] = <<>>
    /\ Len(jobCh["w2"]) = MaxQueued

----------------------------------------------------------------------------
(* Workers that join: workerImpl.Start publishes the registration and then  *)
(* subscribes to dispatcher.job.<worker_id>, while the dispatcher handles   *)
(* registrations and a caller of DispatchJob runs.                          *)

\* workerImpl.Start after its registration is out: w.subscribe(ctx, jobSubject)
workerSubscribes(w) ==
    /\ lastSent[w] = "registered"
    /\ w \notin DOMAIN jobCh
    /\ jobCh' = MapSet(jobCh, w, <<>>)
    /\ UNCHANGED <<memberVars, disp, jobs, cycles, subs, sc, pj, genClosed, nUUID, origin, published,
                   nCycles, nStoreFail, nTicks>>
    /\ UNCHANGED <<agent, unitVars>>

\* main's test goroutine calls DispatchJob, while the job channels have room
joinDispatch ==
    /\ \A w \in DOMAIN jobCh : Len(jobCh[w]) < MaxQueued
    /\ callDispatch

NextJoin ==
    \/ \E w \in WorkerIDs : Register(w)
    \/ \E w \in WorkerIDs : workerSubscribes(w)
    \/ handleRegistrationsWorkers
    \/ handleRegistrationsHeartbeat
    \/ joinDispatch
    \/ dispatchSnapshot
    \/ dispatchSelect
    \/ dispatchReturn
    \/ \E w \in WorkerIDs : handleJobs(w)

SpecJoin == Init /\ [][NextJoin]_vars

\* C37: every job DispatchJob publishes goes to a worker that is subscribed
\* to its job subject, and is put into that worker's channel.
C37_SubscribedBeforeSelectable ==
    [][(disp.pc = "select" /\ disp'.pubs # <<>>)
         => LET m == disp'.pubs[1] IN
              /\ m.subject \in DOMAIN jobCh
              /\ jobCh'[m.subject] = Append(jobCh[m.subject], m.data)]_vars

----------------------------------------------------------------------------
(* Cycles with little or nothing to do: StartCycle with a strategy of no    *)
(* user, of no job per session, or of one user and one job (for whom the    *)
(* generator may have closed its stream), and the service running on.       *)

SmallStrategies ==
    {[MaxUsers |-> 0, MaxFiles |-> 0, MaxWorkspaces |-> 1],
     [MaxUsers |-> 1, MaxFiles |-> 0, MaxWorkspaces |-> 0],
     OneJobStrategy}

NextIdle ==
    \/ \E s \in SmallStrategies : startCycle(s)
    \/ startCycleReadUser
    \/ startCycleGenerate
    \/ startCycleCreateJob
    \/ startCycleReturn
    \/ startCycleDone
    \/ stopWorkers
    \/ processJobsTick
    \/ processJobsDispatch
    \/ dispatchSnapshot
    \/ dispatchSelect
    \/ processJobsUpdate
    \/ processJobsSubscribe
    \/ \E i \in DOMAIN subs : resultUpdateJob(i)
    \/ \E i \in DOMAIN subs : checkCycleCompletionPending(i)
    \/ \E i \in DOMAIN subs : checkCycleCompletionDispatched(i)
    \/ \E w \in WorkerIDs : handleJobs(w)

\* StartCycle runs to its return, and the service as in FairEvict
FairIdle ==
    /\ FairEvict
    /\ WF_vars(startCycleReadUser)
    /\ WF_vars(startCycleGenerate)
    /\ WF_vars(startCycleCreateJob)
    /\ WF_vars(startCycleReturn)
    /\ WF_vars(startCycleDone)

SpecIdle == InitJob /\ [][NextIdle]_vars /\ FairIdle

\* StartCycle has returned nil, cycle c is running, no job was persisted for
\* it, and a tick is still to come
ZeroJobCycle(c) ==
    /\ c \in DOMAIN cycles
    /\ cycles[c].status = "running"
    /\ sc.pc = "returned"
    /\ sc.err = "nil"
    /\ sc.cycle.uuid = c
    /\ JobsOf(c) = {}
    /\ nTicks < MaxPJTicks

RunningCycleFrozen ==
    [][\A c \in DOMAIN cycles : cycles[c].status = "running" => cycles'[c] = cycles[c]]_vars

----------------------------------------------------------------------------
(* The generator's life: the three producers started by startWorkers, the   *)
(* readers of the three streams, and stopWorkers.  Each producer is at the  *)
(* top of its loop ("top"), at the select that sends what it generated      *)
(* ("send"), or has returned ("exited").                                    *)

Streams == {"user", "file", "workspace"}

BufferOf(c) == IF c = "user" THEN UserBuffer
               ELSE IF c = "file" THEN FileBuffer ELSE WorkspaceBuffer

\* select: default: generate; an error goes round the loop
producerGenerate(c) ==
    /\ generator.pc = "started"
    /\ generator.producer[c] = "top"
    /\ ~generator.cancelled
    /\ \E ok \in BOOLEAN :
         generator' = [generator EXCEPT !.producer[c] = IF ok THEN "send" ELSE "top"]
    /\ UNCHANGED otherThanGenerator

\* select: case ch <- value; a send on a closed channel panics
producerSend(c) ==
    /\ generator.pc = "started"
    /\ generator.producer[c] = "send"
    /\ generator.closed[c] \/ generator.n[c] < BufferOf(c)
    /\ generator' = [generator EXCEPT
                       !.producer[c] = "top",
                       !.n[c] = IF generator.closed[c] THEN @ ELSE @ + 1,
                       !.sentOnClosed = @ \/ generator.closed[c]]
    /\ UNCHANGED otherThanGenerator

\* select: case <-ctx.Done(): return (defer g.wg.Done()), at either select
producerDone(c) ==
    /\ generator.pc = "started"
    /\ generator.producer[c] \in {"top", "send"}
    /\ generator.cancelled
    /\ generator' = [generator EXCEPT !.producer[c] = "exited"]
    /\ UNCHANGED otherThanGenerator

\* a reader of Users(), Files() or Workspaces() takes a value
streamRead(c) ==
    /\ generator.pc = "started"
    /\ generator.n[c] > 0
    /\ generator' = [generator EXCEPT !.n[c] = @ - 1]
    /\ UNCHANGED otherThanGenerator

\* stopWorkers: g.cancelWorkers()
stopWorkersCancel ==
    /\ generator.pc = "started"
    /\ generator.stop = "none"
    /\ generator' = [generator EXCEPT !.cancelled = TRUE, !.stop = "wait"]
    /\ UNCHANGED otherThanGenerator

\* a stopWorkers that does not wait for the producers
stopWorkersNoWait ==
    /\ generator.pc = "started"
    /\ generator.stop = "wait"
    /\ generator' = [generator EXCEPT !.stop = "user"]
    /\ UNCHANGED otherThanGenerator

\* stopWorkers: g.wg.Wait()
stopWorkersWait ==
    /\ generator.pc = "started"
    /\ generator.stop = "wait"
    /\ \A c \in Streams : generator.producer[c] = "exited"
    /\ generator' = [generator EXCEPT !.stop = "user"]
    /\ UNCHANGED otherThanGenerator

\* stopWorkers: close(g.userCh), close(g.fileCh), close(g.workspaceCh)
stopWorkersClose ==
    /\ generator.pc = "started"
    /\ generator.stop \in Streams
    /\ generator' = [generator EXCEPT
                       !.closed[generator.stop] = TRUE,
                       !.closes[generator.stop] = @ + 1,
                       !.stop = IF generator.stop = "user" THEN "file"
                                ELSE IF generator.stop = "file" THEN "workspace"
                                ELSE "done"]
    /\ UNCHANGED otherThanGenerator

InitLife ==
    /\ InitBus
    /\ agent = NoAgent
    /\ synth = NoSynth
    /\ mu = NoMu
    /\ bg = NoBg
    /\ generator = [pc |-> "started",
                    cancelled |-> FALSE,
                    producer |-> [c \in Streams |-> "top"],
                    n |-> [c \in Streams |-> 0],
                    closed |-> [c \in Streams |-> FALSE],
                    closes |-> [c \in Streams |-> 0],
                    sentOnClosed |-> FALSE,
                    stop |-> "none"]

NextLife ==
    \/ \E c \in Streams : producerGenerate(c)
    \/ \E c \in Streams : producerSend(c)
    \/ \E c \in Streams : producerDone(c)
    \/ \E c \in Streams : streamRead(c)
    \/ stopWorkersCancel
    \/ stopWorkersWait
    \/ stopWorkersClose

SpecLife == InitLife /\ [][NextLife]_vars

\* C40: no producer sends on a closed stream; a stream is closed only after
\* stopWorkers has cancelled the producers and all three have exited; each
\* stream is closed at most once, and exactly once when stopWorkers is over;
\* while the generator is running no stream is closed.
C40_NoSendOnClosed ==
    /\ ~generator.sentOnClosed
    /\ \A c \in Streams :
         /\ generator.closes[c] <= 1
         /\ generator.closed[c] <=> generator.closes[c] = 1
         /\ generator.closed[c]
              => /\ generator.cancelled
                 /\ \A d \in Streams : generator.producer[d] = "exited"
         /\ generator.stop = "done" => generator.closes[c] = 1
         /\ generator.stop = "none" => ~generator.closed[c]

\* stopWorkers is over while values that were sent are still in the streams
C40_Witness ==
    /\ generator.stop = "done"
    /\ \A c \in Streams : generator.closed[c] /\ generator.n[c] = BufferOf(c)

====
